---------------------------- MODULE Spec2Model ----------------------------
(***************************************************************************)
(* A model of the command-line option parser of cions/go-options           *)
(* (src/options.go, second generation: lines 198-502).                     *)
(*                                                                         *)
(* A token is a sequence of one-character strings, so that prefixes, the   *)
(* cut at "=" and the in-place rewrite of a clustered short option are     *)
(* computed character by character as the Go code does.  One action is one *)
(* iteration of the loop of parse (one per case of its switch), followed   *)
(* by the return of the entry point.  The schema's callbacks are opaque:   *)
(* each one either succeeds or returns one of a few errors, chosen by an   *)
(* oracle.                                                                 *)
(***************************************************************************)
EXTENDS Integers, Sequences, FiniteSets, TLC

VARIABLES
    input,       \* the token sequence the caller passed (never changes)
    entry,       \* the entry point called: "Parse", "ParsePOSIX", "ParseS"
    caps,        \* which optional interfaces the schema implements
    mem,         \* the backing array of args, shared with the caller
    cur,         \* args == mem[cur..]
    positional,  \* parse's local: positional
    exited,      \* parse's local: exited
    calls,       \* every call made on the schema so far, in order
    cb,          \* what the last callback of the schema returned (<<>> is nil)
    branch,      \* the case of the switch the last iteration took
    pc,          \* "loop", "returned" (parse returned), "done", "panic"
    ret,         \* the list returned (by parse, then by the entry point)
    err          \* the error returned (<<>> is nil)

vars == <<input, entry, caps, mem, cur, positional, exited, calls, cb, branch, pc, ret, err>>

-----------------------------------------------------------------------------
(* Bounds and inputs *)

MaxArgs == 3

Tokens ==
    { <<"-", "-">>,
      <<"-">>,
      <<"k">>,
      <<"-", "a">>,
      <<"-", "a", "-">>,
      <<"-", "r">>,
      <<"-", "s">>,
      <<"-", "s", "k">>,
      <<"-", "s", "=", "k">>,
      <<"-", "x">>,
      <<"-", "-", "a", "=", "k">>,
      <<"-", "-", "r">>,
      <<"-", "-", "s">>,
      <<"-", "-", "s", "=", "k">> }

RECURSIVE SeqsUpTo(_, _)
SeqsUpTo(S, n) ==
    IF n = 0 THEN { <<>> }
    ELSE LET shorter == SeqsUpTo(S, n - 1)
         IN  shorter \cup { Append(q, x) : q \in { p \in shorter : Len(p) = n - 1 }, x \in S }

Inputs == SeqsUpTo(Tokens, MaxArgs)

\* The tokens around a cluster of Boolean options: what may consume it as a
\* value, precede it as a positional or separator, or follow it.
ClusterTokens ==
    { <<"-", "-">>,
      <<"k">>,
      <<"-", "a", "b", "c">>,
      <<"-", "r">>,
      <<"-", "s">>,
      <<"-", "-", "s">> }

ClusterInputs == SeqsUpTo(ClusterTokens, MaxArgs)

\* Short options in all their forms: clusters of Boolean options, a cluster
\* cut by "-", and options with attached and detached values.
ShortTokens ==
    { <<"-", "-">>,
      <<"k">>,
      <<"-", "a", "b">>,
      <<"-", "a", "b", "c">>,
      <<"-", "a", "-">>,
      <<"-", "r">>,
      <<"-", "r", "k">>,
      <<"-", "s", "k">>,
      <<"-", "-", "s">>,
      <<"-", "-", "r", "=", "k">> }

ShortInputs == SeqsUpTo(ShortTokens, MaxArgs)

\* A Required option in its forms, and the tokens it may take as its value.
RequiredTokens ==
    { <<"-", "-">>,
      <<"-">>,
      <<"k">>,
      <<"-", "a">>,
      <<"-", "r">>,
      <<"-", "r", "k">>,
      <<"-", "-", "r">>,
      <<"-", "-", "r", "=">>,
      <<"-", "-", "r", "=", "k", "=", "k">> }

RequiredInputs == SeqsUpTo(RequiredTokens, MaxArgs)

\* An Optional option in its forms, and tokens that may follow it.
OptionalTokens ==
    { <<"-", "-">>,
      <<"k">>,
      <<"-", "a">>,
      <<"-", "o">>,
      <<"-", "o", "k">>,
      <<"-", "-", "o">>,
      <<"-", "-", "o", "=">>,
      <<"-", "-", "o", "=", "k">> }

OptionalInputs == SeqsUpTo(OptionalTokens, MaxArgs)

\* A Boolean option in its forms.
BooleanTokens ==
    { <<"-", "-">>,
      <<"k">>,
      <<"-", "a">>,
      <<"-", "a", "b">>,
      <<"-", "-", "a">>,
      <<"-", "-", "a", "=">>,
      <<"-", "-", "a", "=", "k">> }

BooleanInputs == SeqsUpTo(BooleanTokens, MaxArgs)

\* One token for each way an iteration moves on: the separator, a
\* positional, a cluster rewritten in place, an option taking the next token
\* and an option taking the next two.
LoopTokens ==
    { <<"-", "-">>,
      <<"k">>,
      <<"-", "a", "b", "c">>,
      <<"-", "r">>,
      <<"-", "-", "s">> }

LoopInputs == SeqsUpTo(LoopTokens, MaxArgs)

\* Options of every Kind, in the forms that lead to a call of Option.
KindTokens ==
    { <<"-", "-">>,
      <<"k">>,
      <<"-", "-", "a">>,
      <<"-", "a", "b">>,
      <<"-", "r", "k">>,
      <<"-", "-", "r">>,
      <<"-", "-", "r", "=">>,
      <<"-", "o">>,
      <<"-", "o", "k">>,
      <<"-", "-", "o", "=">>,
      <<"-", "s">>,
      <<"-", "x">> }

KindInputs == SeqsUpTo(KindTokens, MaxArgs)

\* Options of the Kinds both generations of the engine know, in every form,
\* and no option taking two values.
GenTokens ==
    { <<"-", "-">>,
      <<"-">>,
      <<"k">>,
      <<"-", "a", "b">>,
      <<"-", "a", "-">>,
      <<"-", "r">>,
      <<"-", "-", "r">>,
      <<"-", "-", "r", "=", "k">>,
      <<"-", "o", "k">>,
      <<"-", "-", "o">>,
      <<"-", "-", "a", "=", "k">>,
      <<"-", "x">> }

GenInputs == SeqsUpTo(GenTokens, MaxArgs)

Entries == { "Parse", "ParsePOSIX", "ParseS" }

\* The schema implements all of OptionsWithArg, OptionsWithArgs and
\* OptionsWithOptionN (as TestOptions does), or none of them (as
\* ExampleGlobalOptions does).
Capabilities ==
    { [arg |-> TRUE, args |-> TRUE, optionN |-> TRUE],
      [arg |-> FALSE, args |-> FALSE, optionN |-> FALSE] }

-----------------------------------------------------------------------------
(* Errors.  An error is its Unwrap chain: a sequence of layers, outermost    *)
(* first; nil is the empty chain.  A layer built by Errorf is tagged (it is  *)
(* a cmdlineError), and its Unwrap is the %w operand of the format.          *)

Nil == <<>>

Layer(tagged, fmt, name) == [tagged |-> tagged, fmt |-> fmt, name |-> name]

New(text) == << Layer(FALSE, text, <<>>) >>

\* Faulty variant: the error is built by fmt.Errorf alone, without the
\* cmdlineError wrapper.
ErrorfUntagged(fmt, name, cause) == << Layer(FALSE, fmt, name) >> \o cause

Errorf(fmt, name, cause) == << Layer(TRUE, fmt, name) >> \o cause

ErrCmdline == New("invalid command line")

ErrHelp == Errorf("help requested", <<>>, Nil)

ErrVersion == Errorf("version requested", <<>>, Nil)

ErrUnknown == Errorf("unknown option", <<>>, Nil)

ErrNoSubcommand == Errorf("no subcommand was provided", <<>>, Nil)

\* cmdlineError.Is
CmdlineIs(layer, target) == layer.tagged /\ target = ErrCmdline

\* errors.Is over a chain: identity, then the Is method, then Unwrap.
RECURSIVE ErrIs(_, _)
ErrIs(e, target) ==
    IF e = Nil THEN FALSE
    ELSE \/ e = target
         \/ CmdlineIs(Head(e), target)
         \/ ErrIs(Tail(e), target)

\* strconv's errors, as TestOptions.Option returns them for --number.
ErrSyntax == New("invalid syntax")

ErrNum == << Layer(FALSE, "strconv.ParseInt: parsing %q: %w", <<>>) >> \o ErrSyntax

\* What a callback of the schema may return besides nil.
CallbackErrs == { ErrUnknown, ErrHelp, ErrNum }

-----------------------------------------------------------------------------
(* The schema *)

Unknown == 0
Boolean == 1
Required == 2
Optional == 3
TakeTwoArgs == 4

LetterKind(c) ==
    CASE c \in { "a", "b", "c" } -> Boolean
      [] c = "r" -> Required
      [] c = "o" -> Optional
      [] c = "s" -> TakeTwoArgs
      [] OTHER -> Unknown

\* TestOptions.Kind, with every long name shortened to "--" and one letter.
Kind(name) ==
    IF Len(name) = 2 /\ name[1] = "-" THEN LetterKind(name[2])
    ELSE IF Len(name) = 3 /\ name[1] = "-" /\ name[2] = "-" THEN LetterKind(name[3])
    ELSE Unknown

Call(op, name, value, hasValue, values, index, afterDDash, before, after) ==
    [op |-> op, name |-> name, value |-> value, hasValue |-> hasValue,
     values |-> values, index |-> index, afterDDash |-> afterDDash,
     before |-> before, after |-> after]

KindCall(name) == Call("Kind", name, <<>>, FALSE, <<>>, 0, FALSE, <<>>, <<>>)

OptionCall(name, value, hasValue) ==
    Call("Option", name, value, hasValue, <<>>, 0, FALSE, <<>>, <<>>)

OptionNCall(name, values) ==
    Call("OptionN", name, <<>>, FALSE, values, 0, FALSE, <<>>, <<>>)

ArgCall(index, value, afterDDash) ==
    Call("Arg", <<>>, value, FALSE, <<>>, index, afterDDash, <<>>, <<>>)

ArgsCall(before, after) ==
    Call("Args", <<>>, <<>>, FALSE, <<>>, 0, FALSE, before, after)

\* An oracle says which callback of one loop iteration fails, and how:
\* the at-th one (0: none) returns err.
NoFail == [at |-> 0, err |-> Nil]

Res(o, j) == IF o.at = j THEN o.err ELSE Nil

-----------------------------------------------------------------------------
(* Strings *)

HasPrefix(s, prefix) ==
    Len(s) >= Len(prefix) /\ SubSeq(s, 1, Len(prefix)) = prefix

\* Faulty variant: "=" is never looked for.
CutNever(s) == [before |-> s, after |-> <<>>, found |-> FALSE]

\* Faulty variant: the cut is made at the last "=".
CutLast(s) ==
    LET at == { i \in 1..Len(s) : s[i] = "=" }
    IN  IF at = {} THEN [before |-> s, after |-> <<>>, found |-> FALSE]
        ELSE LET i == CHOOSE i \in at : \A j \in at : i >= j
             IN  [before |-> SubSeq(s, 1, i - 1),
                  after |-> SubSeq(s, i + 1, Len(s)),
                  found |-> TRUE]

\* strings.Cut(s, "="): cut at the first "=".
Cut(s) ==
    LET at == { i \in 1..Len(s) : s[i] = "=" }
    IN  IF at = {} THEN [before |-> s, after |-> <<>>, found |-> FALSE]
        ELSE LET i == CHOOSE i \in at : \A j \in at : i <= j
             IN  [before |-> SubSeq(s, 1, i - 1),
                  after |-> SubSeq(s, i + 1, Len(s)),
                  found |-> TRUE]

DDash == <<"-", "-">>

Dash == <<"-">>

-----------------------------------------------------------------------------
(* parse *)

earlyExit == 1
noDDash == 2

\* Faulty variant: the flags are compared with the bit.
HasFlagEquals(flags, bit) == flags = bit

\* flags & bit != 0
HasFlag(flags, bit) == (flags \div bit) % 2 = 1

EntryFlags(e) ==
    CASE e = "Parse" -> 0
      [] e = "ParsePOSIX" -> earlyExit
      [] e = "ParseS" -> earlyExit + noDDash

\* The state of one call, as a record.
Start(in, e, c) ==
    [entry |-> e, caps |-> c, mem |-> in, cur |-> 1, positional |-> <<>>,
     exited |-> FALSE, calls |-> <<>>, cb |-> Nil, branch |-> "start", pc |-> "loop",
     ret |-> <<>>, err |-> Nil]

Args(s) == SubSeq(s.mem, s.cur, Len(s.mem))

Flags(s) == EntryFlags(s.entry)

Return(s, list, e) == [s EXCEPT !.pc = "returned", !.ret = list, !.err = e]

Fail(s, e) == Return(s, <<>>, e)

\* Faulty variant: the missing OptionN is reported as an error of the command line.
PanicReturnsError(s) == Fail(s, Errorf("OptionN method is not implemented", <<>>, Nil))

Panic(s) == [s EXCEPT !.pc = "panic"]

Log(s, c) == [s EXCEPT !.calls = Append(s.calls, c)]

\* The callback c is called and returns e.
Called(s, c, e) == [s EXCEPT !.calls = Append(s.calls, c), !.cb = e]

Advance(s, n) == [s EXCEPT !.cur = s.cur + n]

\* Faulty variant: the wrong flag is tested.
IsSeparatorWrongFlag(s) == Args(s)[1] = DDash /\ ~HasFlag(Flags(s), earlyExit)

\* Faulty variant: the flag is not tested.
IsSeparatorAlways(s) == Args(s)[1] = DDash

IsSeparator(s) == Args(s)[1] = DDash /\ ~HasFlag(Flags(s), noDDash)

\* Faulty variant: the exited flag is not consulted.
IsPositionalNoExited(s) ==
    \/ ~HasPrefix(Args(s)[1], Dash)
    \/ Args(s)[1] = Dash
    \/ Args(s)[1] = DDash

\* Faulty variant: a lone "-" is not taken as a positional.
IsPositionalNoDash(s) ==
    \/ s.exited
    \/ ~HasPrefix(Args(s)[1], Dash)
    \/ Args(s)[1] = DDash

IsPositional(s) ==
    \/ s.exited
    \/ ~HasPrefix(Args(s)[1], Dash)
    \/ Args(s)[1] = Dash
    \/ Args(s)[1] = DDash

\* The case of the switch the next iteration takes ("end": the loop exits).
Branch(s) ==
    IF Len(Args(s)) = 0 THEN "end"
    ELSE IF IsSeparator(s) THEN "separator"
    ELSE IF IsPositional(s) THEN "positional"
    ELSE IF HasPrefix(Args(s)[1], DDash) THEN "long"
    ELSE IF Len(Args(s)[1]) > 2 THEN "cluster"
    ELSE "bare"

\* Faulty variant: after a failure of Arg the remaining tokens are still
\* reported, and Args is still called, before the failure is returned.
SeparatorStepKeepsReporting(s0, o) ==
    LET s == [s0 EXCEPT !.branch = "separator"]
        rest == Tail(Args(s))
        n == IF s.caps.arg THEN Len(rest) ELSE 0
        argCalls == [i \in 1..n |-> ArgCall((i - 1) + Len(s.positional), rest[i], TRUE)]
        s1 == [s EXCEPT !.calls = s.calls \o argCalls,
                        !.cb = IF n = 0 THEN s.cb ELSE Res(o, n)]
        s2 == Called(s1, ArgsCall(s.positional, rest), Res(o, n + 1))
    IN  IF ~s.caps.args
        THEN (IF o.at \in 1..n THEN Fail(s1, o.err) ELSE Return(s1, s.positional \o rest, Nil))
        ELSE IF o.at # 0 THEN Fail(s2, o.err)
        ELSE Return(s2, s.positional \o rest, Nil)

\* Faulty variant: the index of Arg restarts at 0 after the separator.
SeparatorStepRestartsIndex(s0, o) ==
    LET s == [s0 EXCEPT !.branch = "separator"]
        rest == Tail(Args(s))
        n == IF s.caps.arg THEN Len(rest) ELSE 0
        made == IF o.at \in 1..n THEN o.at ELSE n
        argCalls == [i \in 1..made |-> ArgCall(i - 1, rest[i], TRUE)]
        s1 == [s EXCEPT !.calls = s.calls \o argCalls,
                        !.cb = IF made = 0 THEN s.cb ELSE Res(o, made)]
        s2 == Called(s1, ArgsCall(s.positional, rest), Res(o, n + 1))
    IN  IF o.at \in 1..n THEN Fail(s1, o.err)
        ELSE IF ~s.caps.args THEN Return(s1, s.positional \o rest, Nil)
        ELSE IF Res(o, n + 1) # Nil THEN Fail(s2, Res(o, n + 1))
        ELSE Return(s2, s.positional \o rest, Nil)

\* Faulty variant: at the separator Args is called before the Arg calls.
SeparatorStepArgsFirst(s0, o) ==
    LET s == [s0 EXCEPT !.branch = "separator"]
        rest == Tail(Args(s))
        n == IF s.caps.arg THEN Len(rest) ELSE 0
        first == IF s.caps.args THEN 1 ELSE 0
        s1 == IF s.caps.args
              THEN Called(s, ArgsCall(s.positional, rest), Res(o, 1))
              ELSE s
        made == IF (o.at - first) \in 1..n THEN o.at - first ELSE n
        argCalls == [i \in 1..made |-> ArgCall((i - 1) + Len(s.positional), rest[i], TRUE)]
        s2 == [s1 EXCEPT !.calls = s1.calls \o argCalls,
                         !.cb = IF made = 0 THEN s1.cb ELSE Res(o, made + first)]
    IN  IF s.caps.args /\ Res(o, 1) # Nil THEN Fail(s1, Res(o, 1))
        ELSE IF (o.at - first) \in 1..n THEN Fail(s2, o.err)
        ELSE Return(s2, s.positional \o rest, Nil)

\* case args[0] == "--" && flags&noDDash == 0
SeparatorStep(s0, o) ==
    LET s == [s0 EXCEPT !.branch = "separator"]
        rest == Tail(Args(s))
        n == IF s.caps.arg THEN Len(rest) ELSE 0
        made == IF o.at \in 1..n THEN o.at ELSE n
        argCalls == [i \in 1..made |-> ArgCall((i - 1) + Len(s.positional), rest[i], TRUE)]
        s1 == [s EXCEPT !.calls = s.calls \o argCalls,
                        !.cb = IF made = 0 THEN s.cb ELSE Res(o, made)]
        s2 == Called(s1, ArgsCall(s.positional, rest), Res(o, n + 1))
    IN  IF o.at \in 1..n THEN Fail(s1, o.err)
        ELSE IF ~s.caps.args THEN Return(s1, s.positional \o rest, Nil)
        ELSE IF Res(o, n + 1) # Nil THEN Fail(s2, Res(o, n + 1))
        ELSE Return(s2, s.positional \o rest, Nil)

\* Faulty variant: the token is reported through Arg but not appended.
PositionalStepDropsToken(s0, o) ==
    LET s == [s0 EXCEPT !.branch = "positional"]
        tok == Args(s)[1]
        s1 == IF s.caps.arg
              THEN Called(s, ArgCall(Len(s.positional), tok, FALSE), Res(o, 1))
              ELSE s
    IN  IF s.caps.arg /\ Res(o, 1) # Nil THEN Fail(s1, Res(o, 1))
        ELSE [Advance(s1, 1) EXCEPT
                !.exited = IF HasFlag(Flags(s), earlyExit) THEN TRUE ELSE s.exited]

\* Faulty variant: the exited flag is set whatever the flags of the entry point.
PositionalStepAlwaysExits(s0, o) ==
    LET s == [s0 EXCEPT !.branch = "positional"]
        tok == Args(s)[1]
        s1 == IF s.caps.arg
              THEN Called(s, ArgCall(Len(s.positional), tok, FALSE), Res(o, 1))
              ELSE s
    IN  IF s.caps.arg /\ Res(o, 1) # Nil THEN Fail(s1, Res(o, 1))
        ELSE [Advance(s1, 1) EXCEPT
                !.positional = Append(s.positional, tok),
                !.exited = TRUE]

\* case exited, !strings.HasPrefix(args[0], "-"), args[0] == "-", args[0] == "--"
PositionalStep(s0, o) ==
    LET s == [s0 EXCEPT !.branch = "positional"]
        tok == Args(s)[1]
        s1 == IF s.caps.arg
              THEN Called(s, ArgCall(Len(s.positional), tok, FALSE), Res(o, 1))
              ELSE s
    IN  IF s.caps.arg /\ Res(o, 1) # Nil THEN Fail(s1, Res(o, 1))
        ELSE [Advance(s1, 1) EXCEPT
                !.positional = Append(s.positional, tok),
                !.exited = IF HasFlag(Flags(s), earlyExit) THEN TRUE ELSE s.exited]

\* Faulty variant: the cause is formatted with %v, not wrapped with %w.
DispatchNoWrap(s, name, value, hasValue, o) ==
    LET e == Res(o, 1)
        s1 == Called(s, OptionCall(name, value, hasValue), e)
    IN  IF e = ErrUnknown THEN Fail(s1, Errorf("unknown option %q", name, Nil))
        ELSE IF e # Nil THEN Fail(s1, Errorf("option %s: %v", name, Nil))
        ELSE s1

\* Faulty variant: the unknown failure of Option is returned as it is.
DispatchPassesUnknown(s, name, value, hasValue, o) ==
    LET e == Res(o, 1)
        s1 == Called(s, OptionCall(name, value, hasValue), e)
    IN  IF e = ErrUnknown THEN Fail(s1, e)
        ELSE IF e # Nil THEN Fail(s1, Errorf("option %s: %w", name, e))
        ELSE s1

\* opts.Option(name, value, hasValue) and the wrapping of its failure
Dispatch(s, name, value, hasValue, o) ==
    LET e == Res(o, 1)
        s1 == Called(s, OptionCall(name, value, hasValue), e)
    IN  IF e = ErrUnknown THEN Fail(s1, Errorf("unknown option %q", name, Nil))
        ELSE IF e # Nil THEN Fail(s1, Errorf("option %s: %w", name, e))
        ELSE s1

\* nopts.OptionN(name, values) in the long form: every failure is wrapped
OptionNLong(s, name, values, n, o) ==
    IF ~s.caps.optionN THEN Panic(s)
    ELSE LET e == Res(o, 1)
             s1 == Called(s, OptionNCall(name, values), e)
         IN  IF e # Nil THEN Fail(s1, Errorf("option %s: %w", name, e))
             ELSE Advance(s1, n)

\* Faulty variant: the two values are passed in the wrong order.
OptionNShortSwapped(s, name, values, n, o) ==
    IF ~s.caps.optionN THEN Panic(s)
    ELSE LET e == Res(o, 1)
             s1 == Called(s, OptionNCall(name, << values[2], values[1] >>), e)
         IN  IF e = ErrUnknown THEN Fail(s1, Errorf("unknown option %q", name, Nil))
             ELSE IF e # Nil THEN Fail(s1, Errorf("option %s: %w", name, e))
             ELSE Advance(s1, n)

\* nopts.OptionN(name, values) in the short forms
OptionNShort(s, name, values, n, o) ==
    IF ~s.caps.optionN THEN Panic(s)
    ELSE LET e == Res(o, 1)
             s1 == Called(s, OptionNCall(name, values), e)
         IN  IF e = ErrUnknown THEN Fail(s1, Errorf("unknown option %q", name, Nil))
             ELSE IF e # Nil THEN Fail(s1, Errorf("option %s: %w", name, e))
             ELSE Advance(s1, n)

\* Faulty variant: the "=" form of a two-value option is not rejected.
LongStepAllowsEquals(s0, o) ==
    LET args == Args(s0)
        cut == Cut(args[1])
        name == cut.before
        s == Log([s0 EXCEPT !.branch = "long"], KindCall(name))
        k == Kind(name)
    IN  CASE k = Required ->
               IF ~cut.found /\ Len(args) < 2
               THEN Fail(s, Errorf("option %s requires an argument", name, Nil))
               ELSE IF cut.found
               THEN Dispatch(Advance(s, 1), name, cut.after, TRUE, o)
               ELSE Dispatch(Advance(s, 2), name, args[2], TRUE, o)
          [] k = Optional ->
               Dispatch(Advance(s, 1), name, cut.after, cut.found, o)
          [] k = Boolean ->
               IF cut.found
               THEN Fail(s, Errorf("option %s takes no argument", name, Nil))
               ELSE Dispatch(Advance(s, 1), name, cut.after, cut.found, o)
          [] k = TakeTwoArgs ->
               IF Len(args) < 3
               THEN Fail(s, Errorf("option %s requires 2 arguments", name, Nil))
               ELSE OptionNLong(s, name, SubSeq(args, 2, 3), 3, o)
          [] OTHER -> Fail(s, Errorf("unknown option %q", name, Nil))

\* Faulty variant: a Boolean option written with "=" is dispatched with the value.
LongStepBooleanTakesValue(s0, o) ==
    LET args == Args(s0)
        cut == Cut(args[1])
        name == cut.before
        s == Log([s0 EXCEPT !.branch = "long"], KindCall(name))
        k == Kind(name)
    IN  CASE k = Required ->
               IF ~cut.found /\ Len(args) < 2
               THEN Fail(s, Errorf("option %s requires an argument", name, Nil))
               ELSE IF cut.found
               THEN Dispatch(Advance(s, 1), name, cut.after, TRUE, o)
               ELSE Dispatch(Advance(s, 2), name, args[2], TRUE, o)
          [] k \in { Optional, Boolean } ->
               Dispatch(Advance(s, 1), name, cut.after, cut.found, o)
          [] k = TakeTwoArgs ->
               IF cut.found
               THEN Fail(s, Errorf("option %s takes 2 arguments; %s=VALUE form is not permitted", name, Nil))
               ELSE IF Len(args) < 3
               THEN Fail(s, Errorf("option %s requires 2 arguments", name, Nil))
               ELSE OptionNLong(s, name, SubSeq(args, 2, 3), 3, o)
          [] OTHER -> Fail(s, Errorf("unknown option %q", name, Nil))

\* case strings.HasPrefix(args[0], "--")
LongStep(s0, o) ==
    LET args == Args(s0)
        cut == Cut(args[1])
        name == cut.before
        s == Log([s0 EXCEPT !.branch = "long"], KindCall(name))
        k == Kind(name)
    IN  CASE k = Required ->
               IF ~cut.found /\ Len(args) < 2
               THEN Fail(s, Errorf("option %s requires an argument", name, Nil))
               ELSE IF cut.found
               THEN Dispatch(Advance(s, 1), name, cut.after, TRUE, o)
               ELSE Dispatch(Advance(s, 2), name, args[2], TRUE, o)
          [] k = Optional ->
               Dispatch(Advance(s, 1), name, cut.after, cut.found, o)
          [] k = Boolean ->
               IF cut.found
               THEN Fail(s, Errorf("option %s takes no argument", name, Nil))
               ELSE Dispatch(Advance(s, 1), name, cut.after, cut.found, o)
          [] k = TakeTwoArgs ->
               IF cut.found
               THEN Fail(s, Errorf("option %s takes 2 arguments; %s=VALUE form is not permitted", name, Nil))
               ELSE IF Len(args) < 3
               THEN Fail(s, Errorf("option %s requires 2 arguments", name, Nil))
               ELSE OptionNLong(s, name, SubSeq(args, 2, 3), 3, o)
          [] OTHER -> Fail(s, Errorf("unknown option %q", name, Nil))

\* Faulty variant: one character too many is dropped.
RewriteDropsTwo(tok) == Dash \o SubSeq(tok, 4, Len(tok))

\* Faulty variant: the "-" is not put back in front of the remainder.
RewriteNoDash(tok) == SubSeq(tok, 3, Len(tok))

\* Faulty variant: the token is put back as it was.
RewriteKeepsToken(tok) == tok

\* args[0] = "-" + args[0][2:]
Rewrite(tok) == Dash \o SubSeq(tok, 3, Len(tok))

\* Faulty variant: a Required or Optional option with an attached value also
\* takes the next token away.
ClusterStepSkipsToken(s0, o) ==
    LET args == Args(s0)
        tok == args[1]
        name == SubSeq(tok, 1, 2)
        s == Log([s0 EXCEPT !.branch = "cluster"], KindCall(name))
        k == Kind(name)
    IN  CASE k \in { Required, Optional } ->
               Dispatch(Advance(s, 2), name, SubSeq(tok, 3, Len(tok)), TRUE, o)
          [] k = Boolean ->
               IF tok[3] = "-"
               THEN Fail(s, Errorf("invalid option '-'", <<>>, Nil))
               ELSE Dispatch([s EXCEPT !.mem[s.cur] = Rewrite(tok)], name, <<>>, FALSE, o)
          [] k = TakeTwoArgs ->
               IF Len(args) < 2
               THEN Fail(s, Errorf("option %s requires 2 arguments", name, Nil))
               ELSE OptionNShort(s, name, << SubSeq(tok, 3, Len(tok)), args[2] >>, 2, o)
          [] OTHER -> Fail(s, Errorf("unknown option %q", name, Nil))

\* Faulty variant: the attached value is passed with hasValue = false.
ClusterStepNoHasValue(s0, o) ==
    LET args == Args(s0)
        tok == args[1]
        name == SubSeq(tok, 1, 2)
        s == Log([s0 EXCEPT !.branch = "cluster"], KindCall(name))
        k == Kind(name)
    IN  CASE k \in { Required, Optional } ->
               Dispatch(Advance(s, 1), name, SubSeq(tok, 3, Len(tok)), FALSE, o)
          [] k = Boolean ->
               IF tok[3] = "-"
               THEN Fail(s, Errorf("invalid option '-'", <<>>, Nil))
               ELSE Dispatch([s EXCEPT !.mem[s.cur] = Rewrite(tok)], name, <<>>, FALSE, o)
          [] k = TakeTwoArgs ->
               IF Len(args) < 2
               THEN Fail(s, Errorf("option %s requires 2 arguments", name, Nil))
               ELSE OptionNShort(s, name, << SubSeq(tok, 3, Len(tok)), args[2] >>, 2, o)
          [] OTHER -> Fail(s, Errorf("unknown option %q", name, Nil))

\* case len(args[0]) > 2
ClusterStep(s0, o) ==
    LET args == Args(s0)
        tok == args[1]
        name == SubSeq(tok, 1, 2)
        s == Log([s0 EXCEPT !.branch = "cluster"], KindCall(name))
        k == Kind(name)
    IN  CASE k \in { Required, Optional } ->
               Dispatch(Advance(s, 1), name, SubSeq(tok, 3, Len(tok)), TRUE, o)
          [] k = Boolean ->
               IF tok[3] = "-"
               THEN Fail(s, Errorf("invalid option '-'", <<>>, Nil))
               ELSE Dispatch([s EXCEPT !.mem[s.cur] = Rewrite(tok)], name, <<>>, FALSE, o)
          [] k = TakeTwoArgs ->
               IF Len(args) < 2
               THEN Fail(s, Errorf("option %s requires 2 arguments", name, Nil))
               ELSE OptionNShort(s, name, << SubSeq(tok, 3, Len(tok)), args[2] >>, 2, o)
          [] OTHER -> Fail(s, Errorf("unknown option %q", name, Nil))

\* Faulty variant: a Required option with no token left is dispatched without a value.
BareStepMissingValue(s0, o) ==
    LET args == Args(s0)
        name == args[1]
        s == Log([s0 EXCEPT !.branch = "bare"], KindCall(name))
        k == Kind(name)
    IN  CASE k = Required ->
               IF Len(args) = 1
               THEN Dispatch(Advance(s, 1), name, <<>>, FALSE, o)
               ELSE Dispatch(Advance(s, 2), name, args[2], TRUE, o)
          [] k \in { Boolean, Optional } ->
               Dispatch(Advance(s, 1), name, <<>>, FALSE, o)
          [] k = TakeTwoArgs ->
               IF Len(args) < 3
               THEN Fail(s, Errorf("option %s requires 2 arguments", name, Nil))
               ELSE OptionNShort(s, name, << args[2], args[3] >>, 3, o)
          [] OTHER -> Fail(s, Errorf("unknown option %q", name, Nil))

\* Faulty variant: an Optional option takes the next token as its value.
BareStepOptionalTakesNext(s0, o) ==
    LET args == Args(s0)
        name == args[1]
        s == Log([s0 EXCEPT !.branch = "bare"], KindCall(name))
        k == Kind(name)
    IN  CASE k = Required ->
               IF Len(args) = 1
               THEN Fail(s, Errorf("option %s requires an argument", name, Nil))
               ELSE Dispatch(Advance(s, 2), name, args[2], TRUE, o)
          [] k = Optional ->
               IF Len(args) = 1
               THEN Dispatch(Advance(s, 1), name, <<>>, FALSE, o)
               ELSE Dispatch(Advance(s, 2), name, args[2], TRUE, o)
          [] k = Boolean ->
               Dispatch(Advance(s, 1), name, <<>>, FALSE, o)
          [] k = TakeTwoArgs ->
               IF Len(args) < 3
               THEN Fail(s, Errorf("option %s requires 2 arguments", name, Nil))
               ELSE OptionNShort(s, name, << args[2], args[3] >>, 3, o)
          [] OTHER -> Fail(s, Errorf("unknown option %q", name, Nil))

\* default
BareStep(s0, o) ==
    LET args == Args(s0)
        name == args[1]
        s == Log([s0 EXCEPT !.branch = "bare"], KindCall(name))
        k == Kind(name)
    IN  CASE k = Required ->
               IF Len(args) = 1
               THEN Fail(s, Errorf("option %s requires an argument", name, Nil))
               ELSE Dispatch(Advance(s, 2), name, args[2], TRUE, o)
          [] k \in { Boolean, Optional } ->
               Dispatch(Advance(s, 1), name, <<>>, FALSE, o)
          [] k = TakeTwoArgs ->
               IF Len(args) < 3
               THEN Fail(s, Errorf("option %s requires 2 arguments", name, Nil))
               ELSE OptionNShort(s, name, << args[2], args[3] >>, 3, o)
          [] OTHER -> Fail(s, Errorf("unknown option %q", name, Nil))

\* Faulty variant: Args is not called at the end of the input.
EndStepSkipsArgs(s0, o) == Return([s0 EXCEPT !.branch = "end"], s0.positional, Nil)

\* Faulty variant: a failure of Args is tagged as an error of the command line.
EndStepTagsFailure(s0, o) ==
    LET s == [s0 EXCEPT !.branch = "end"]
        s1 == Called(s, ArgsCall(s.positional, <<>>), Res(o, 1))
    IN  IF ~s.caps.args THEN Return(s, s.positional, Nil)
        ELSE IF Res(o, 1) # Nil THEN Fail(s1, Errorf("%w", <<>>, Res(o, 1)))
        ELSE Return(s1, s.positional, Nil)

\* after the loop
EndStep(s0, o) ==
    LET s == [s0 EXCEPT !.branch = "end"]
        s1 == Called(s, ArgsCall(s.positional, <<>>), Res(o, 1))
    IN  IF ~s.caps.args THEN Return(s, s.positional, Nil)
        ELSE IF Res(o, 1) # Nil THEN Fail(s1, Res(o, 1))
        ELSE Return(s1, s.positional, Nil)

\* Faulty variant: ParseS does not look at the error of parse.
EntryReturnIgnoresErr(s) ==
    IF s.entry = "ParseS" /\ Len(s.ret) = 0
    THEN [s EXCEPT !.pc = "done", !.ret = <<>>, !.err = ErrNoSubcommand]
    ELSE [s EXCEPT !.pc = "done"]

\* Parse, ParsePOSIX and ParseS, once parse has returned
EntryReturn(s) ==
    IF s.entry = "ParseS" /\ s.err = Nil /\ Len(s.ret) = 0
    THEN [s EXCEPT !.pc = "done", !.ret = <<>>, !.err = ErrNoSubcommand]
    ELSE [s EXCEPT !.pc = "done"]

\* One iteration of the loop of parse.
Step(s, o) ==
    CASE Branch(s) = "separator" -> SeparatorStep(s, o)
      [] Branch(s) = "positional" -> PositionalStep(s, o)
      [] Branch(s) = "long" -> LongStep(s, o)
      [] Branch(s) = "cluster" -> ClusterStep(s, o)
      [] Branch(s) = "bare" -> BareStep(s, o)
      [] OTHER -> EndStep(s, o)

\* The oracles that differ on the iteration s is about to make.
Oracles(s) ==
    LET n == IF Branch(s) = "separator" THEN Len(Args(s)) ELSE 1
    IN  { NoFail } \cup { [at |-> j, err |-> e] : j \in 1..n, e \in CallbackErrs }

\* A plan says which callback of a whole run fails: the at-th call of
\* Option, OptionN, Arg or Args (0: none) returns err.
Made(s) == Cardinality({ i \in 1..Len(s.calls) : s.calls[i].op # "Kind" })

RECURSIVE Chars(_)
Chars(toks) == IF toks = <<>> THEN 0 ELSE Len(Head(toks)) + Chars(Tail(toks))

\* The plans that differ on the rest of the call from s on: no more callbacks
\* remain than characters in the remaining tokens, plus the final Args.
PlansFor(s) ==
    { NoFail } \cup
    { [at |-> j, err |-> e] : j \in (Made(s) + 1)..(Made(s) + Chars(Args(s)) + 1),
                              e \in CallbackErrs }

\* The plan p as an oracle for the iteration s is about to make.
Rel(s, p) == [at |-> IF p.at > Made(s) THEN p.at - Made(s) ELSE 0, err |-> p.err]

\* The whole call from s on, under plan p: the loop, then the entry point's return.
RECURSIVE Run(_, _)
Run(s, p) ==
    IF s.pc = "loop" THEN Run(Step(s, Rel(s, p)), p)
    ELSE IF s.pc = "returned" THEN EntryReturn(s)
    ELSE s

\* What the caller and the schema observe of a finished call.
Outcome(s) == [calls |-> s.calls, pc |-> s.pc, ret |-> s.ret, err |-> s.err]

-----------------------------------------------------------------------------
(* The first generation of the engine: the sentinels are plain errors.New    *)
(* values, the failures are built by fmt.Errorf, and there is no ErrCmdline, *)
(* no TakeTwoArgs and no OptionN.  The state of a call is the same record.   *)

OldErrHelp == New("help requested")

OldErrVersion == New("version requested")

OldErrUnknown == New("unknown option")

OldErrNoSubcommand == New("no subcommand was provided")

\* fmt.Errorf: a layer without the cmdlineError wrapper; %w gives its Unwrap.
FmtErrorf(fmt, name, cause) == << Layer(FALSE, fmt, name) >> \o cause

\* case !strings.HasPrefix(args[0], "-"), args[0] == "-", args[0] == "--", exited
OldIsPositional(s) ==
    \/ ~HasPrefix(Args(s)[1], Dash)
    \/ Args(s)[1] = Dash
    \/ Args(s)[1] = DDash
    \/ s.exited

\* The case of the switch the next iteration takes ("end": the loop exits).
OldBranch(s) ==
    IF Len(Args(s)) = 0 THEN "end"
    ELSE IF Args(s)[1] = DDash /\ ~HasFlag(Flags(s), noDDash) THEN "separator"
    ELSE IF OldIsPositional(s) THEN "positional"
    ELSE IF HasPrefix(Args(s)[1], DDash) THEN "long"
    ELSE IF Len(Args(s)[1]) > 2 THEN "cluster"
    ELSE "bare"

\* case args[0] == "--" && flags&noDDash == 0
OldSeparatorStep(s0, o) ==
    LET s == [s0 EXCEPT !.branch = "separator"]
        rest == Tail(Args(s))
        n == IF s.caps.arg THEN Len(rest) ELSE 0
        made == IF o.at \in 1..n THEN o.at ELSE n
        argCalls == [i \in 1..made |-> ArgCall((i - 1) + Len(s.positional), rest[i], TRUE)]
        s1 == [s EXCEPT !.calls = s.calls \o argCalls,
                        !.cb = IF made = 0 THEN s.cb ELSE Res(o, made)]
        s2 == Called(s1, ArgsCall(s.positional, rest), Res(o, n + 1))
    IN  IF o.at \in 1..n THEN Fail(s1, o.err)
        ELSE IF ~s.caps.args THEN Return(s1, s.positional \o rest, Nil)
        ELSE IF Res(o, n + 1) # Nil THEN Fail(s2, Res(o, n + 1))
        ELSE Return(s2, s.positional \o rest, Nil)

\* the positional case
OldPositionalStep(s0, o) ==
    LET s == [s0 EXCEPT !.branch = "positional"]
        tok == Args(s)[1]
        s1 == IF s.caps.arg
              THEN Called(s, ArgCall(Len(s.positional), tok, FALSE), Res(o, 1))
              ELSE s
    IN  IF s.caps.arg /\ Res(o, 1) # Nil THEN Fail(s1, Res(o, 1))
        ELSE [Advance(s1, 1) EXCEPT
                !.positional = Append(s.positional, tok),
                !.exited = IF HasFlag(Flags(s), earlyExit) THEN TRUE ELSE s.exited]

\* opts.Option(name, value, hasValue) and the wrapping of its failure
OldDispatch(s, name, value, hasValue, o) ==
    LET e == Res(o, 1)
        s1 == Called(s, OptionCall(name, value, hasValue), e)
    IN  IF e = OldErrUnknown THEN Fail(s1, FmtErrorf("unknown option %q", name, Nil))
        ELSE IF e # Nil THEN Fail(s1, FmtErrorf("option %s: %w", name, e))
        ELSE s1

\* Faulty variant: a Required option written with "=" still takes the next
\* token as its value.
OldLongStepTakesNext(s0, o) ==
    LET args == Args(s0)
        cut == Cut(args[1])
        name == cut.before
        s == Log([s0 EXCEPT !.branch = "long"], KindCall(name))
        k == Kind(name)
    IN  CASE k = Required ->
               IF Len(args) = 1
               THEN Fail(s, FmtErrorf("option %s requires an argument", name, Nil))
               ELSE OldDispatch(Advance(s, 2), name, args[2], TRUE, o)
          [] k = Optional ->
               OldDispatch(Advance(s, 1), name, cut.after, cut.found, o)
          [] k = Boolean ->
               IF cut.found
               THEN Fail(s, FmtErrorf("option %s takes no argument", name, Nil))
               ELSE OldDispatch(Advance(s, 1), name, cut.after, cut.found, o)
          [] OTHER -> Fail(s, FmtErrorf("unknown option %q", name, Nil))

\* case strings.HasPrefix(args[0], "--")
OldLongStep(s0, o) ==
    LET args == Args(s0)
        cut == Cut(args[1])
        name == cut.before
        s == Log([s0 EXCEPT !.branch = "long"], KindCall(name))
        k == Kind(name)
    IN  CASE k = Required ->
               IF cut.found
               THEN OldDispatch(Advance(s, 1), name, cut.after, TRUE, o)
               ELSE IF Len(args) = 1
               THEN Fail(s, FmtErrorf("option %s requires an argument", name, Nil))
               ELSE OldDispatch(Advance(s, 2), name, args[2], TRUE, o)
          [] k = Optional ->
               OldDispatch(Advance(s, 1), name, cut.after, cut.found, o)
          [] k = Boolean ->
               IF cut.found
               THEN Fail(s, FmtErrorf("option %s takes no argument", name, Nil))
               ELSE OldDispatch(Advance(s, 1), name, cut.after, cut.found, o)
          [] OTHER -> Fail(s, FmtErrorf("unknown option %q", name, Nil))

\* case len(args[0]) > 2
OldClusterStep(s0, o) ==
    LET args == Args(s0)
        tok == args[1]
        name == SubSeq(tok, 1, 2)
        s == Log([s0 EXCEPT !.branch = "cluster"], KindCall(name))
        k == Kind(name)
    IN  CASE k \in { Required, Optional } ->
               OldDispatch(Advance(s, 1), name, SubSeq(tok, 3, Len(tok)), TRUE, o)
          [] k = Boolean ->
               IF tok[3] = "-"
               THEN Fail(s, FmtErrorf("invalid option '-'", <<>>, Nil))
               ELSE OldDispatch([s EXCEPT !.mem[s.cur] = Rewrite(tok)], name, <<>>, FALSE, o)
          [] OTHER -> Fail(s, FmtErrorf("unknown option %q", name, Nil))

\* default
OldBareStep(s0, o) ==
    LET args == Args(s0)
        name == args[1]
        s == Log([s0 EXCEPT !.branch = "bare"], KindCall(name))
        k == Kind(name)
    IN  CASE k = Required ->
               IF Len(args) = 1
               THEN Fail(s, FmtErrorf("option %s requires an argument", name, Nil))
               ELSE OldDispatch(Advance(s, 2), name, args[2], TRUE, o)
          [] k \in { Boolean, Optional } ->
               OldDispatch(Advance(s, 1), name, <<>>, FALSE, o)
          [] OTHER -> Fail(s, FmtErrorf("unknown option %q", name, Nil))

\* after the loop
OldEndStep(s0, o) ==
    LET s == [s0 EXCEPT !.branch = "end"]
        s1 == Called(s, ArgsCall(s.positional, <<>>), Res(o, 1))
    IN  IF ~s.caps.args THEN Return(s, s.positional, Nil)
        ELSE IF Res(o, 1) # Nil THEN Fail(s1, Res(o, 1))
        ELSE Return(s1, s.positional, Nil)

\* Parse, ParsePOSIX and ParseS, once parse has returned
OldEntryReturn(s) ==
    IF s.entry = "ParseS" /\ s.err = Nil /\ Len(s.ret) = 0
    THEN [s EXCEPT !.pc = "done", !.ret = <<>>, !.err = OldErrNoSubcommand]
    ELSE [s EXCEPT !.pc = "done"]

\* One iteration of the loop of parse.
OldStep(s, o) ==
    CASE OldBranch(s) = "separator" -> OldSeparatorStep(s, o)
      [] OldBranch(s) = "positional" -> OldPositionalStep(s, o)
      [] OldBranch(s) = "long" -> OldLongStep(s, o)
      [] OldBranch(s) = "cluster" -> OldClusterStep(s, o)
      [] OldBranch(s) = "bare" -> OldBareStep(s, o)
      [] OTHER -> OldEndStep(s, o)

\* The whole call from s on, under plan p: the loop, then the entry point's return.
RECURSIVE OldRun(_, _)
OldRun(s, p) ==
    IF s.pc = "loop" THEN OldRun(OldStep(s, Rel(s, p)), p)
    ELSE IF s.pc = "returned" THEN OldEntryReturn(s)
    ELSE s

-----------------------------------------------------------------------------
(* The state machine *)

S ==
    [entry |-> entry, caps |-> caps, mem |-> mem, cur |-> cur,
     positional |-> positional, exited |-> exited, calls |-> calls, cb |-> cb,
     branch |-> branch, pc |-> pc, ret |-> ret, err |-> err]

Load(s) ==
    /\ mem' = s.mem
    /\ cur' = s.cur
    /\ positional' = s.positional
    /\ exited' = s.exited
    /\ calls' = s.calls
    /\ cb' = s.cb
    /\ branch' = s.branch
    /\ pc' = s.pc
    /\ ret' = s.ret
    /\ err' = s.err
    /\ UNCHANGED <<input, entry, caps>>

InitWith(inputs) ==
    /\ input \in inputs
    /\ entry \in Entries
    /\ caps \in Capabilities
    /\ mem = input
    /\ cur = 1
    /\ positional = <<>>
    /\ exited = FALSE
    /\ calls = <<>>
    /\ cb = Nil
    /\ branch = "start"
    /\ pc = "loop"
    /\ ret = <<>>
    /\ err = Nil

Separator ==
    /\ pc = "loop"
    /\ Branch(S) = "separator"
    /\ \E o \in Oracles(S) : Load(SeparatorStep(S, o))

Positional ==
    /\ pc = "loop"
    /\ Branch(S) = "positional"
    /\ \E o \in Oracles(S) : Load(PositionalStep(S, o))

LongOption ==
    /\ pc = "loop"
    /\ Branch(S) = "long"
    /\ \E o \in Oracles(S) : Load(LongStep(S, o))

ShortCluster ==
    /\ pc = "loop"
    /\ Branch(S) = "cluster"
    /\ \E o \in Oracles(S) : Load(ClusterStep(S, o))

ShortBare ==
    /\ pc = "loop"
    /\ Branch(S) = "bare"
    /\ \E o \in Oracles(S) : Load(BareStep(S, o))

EndOfInput ==
    /\ pc = "loop"
    /\ Branch(S) = "end"
    /\ \E o \in Oracles(S) : Load(EndStep(S, o))

Returns ==
    /\ pc = "returned"
    /\ Load(EntryReturn(S))

Next ==
    \/ Separator
    \/ Positional
    \/ LongOption
    \/ ShortCluster
    \/ ShortBare
    \/ EndOfInput
    \/ Returns

Init == InitWith(Inputs)

Spec == Init /\ [][Next]_vars

InitCluster == InitWith(ClusterInputs)

SpecCluster == InitCluster /\ [][Next]_vars

InitShort == InitWith(ShortInputs)

SpecShort == InitShort /\ [][Next]_vars

InitRequired == InitWith(RequiredInputs)

SpecRequired == InitRequired /\ [][Next]_vars

InitOptional == InitWith(OptionalInputs)

SpecOptional == InitOptional /\ [][Next]_vars

InitBoolean == InitWith(BooleanInputs)

SpecBoolean == InitBoolean /\ [][Next]_vars

\* The loop of parse is sequential code: as long as the callbacks return, the
\* next iteration, or the return of the entry point, is taken.
InitLoop == InitWith(LoopInputs)

SpecLoop == InitLoop /\ [][Next]_vars /\ WF_vars(Next)

InitKind == InitWith(KindInputs)

SpecKind == InitKind /\ [][Next]_vars

InitGen == InitWith(GenInputs)

SpecGen == InitGen /\ [][Next]_vars

-----------------------------------------------------------------------------
(* Properties *)

\* The calls the step from the current state to the next one adds.
NewCalls == SubSeq(calls', Len(calls) + 1, Len(calls'))

IsPrefix(p, q) == Len(p) <= Len(q) /\ SubSeq(q, 1, Len(p)) = p

OptionOps == { "Kind", "Option", "OptionN" }

NoOptionCall(cs) == \A i \in 1..Len(cs) : cs[i].op \notin OptionOps

\* The token at the cursor, when the loop is about to classify one.
AtCursor == pc = "loop" /\ cur <= Len(mem)

Token == mem[cur]

Following == SubSeq(mem, cur + 1, Len(mem))

\* C1: in Parse and ParsePOSIX, when the token at the cursor is "--", the
\* iteration makes no Kind, Option or OptionN call; it reports every later
\* token through Arg with afterDDash = TRUE and the index continuing from the
\* positional count, in input order, then calls Args(positional, later
\* tokens), stopping at the first callback that fails; when none fails, parse
\* returns the positionals followed by all the later tokens, without the "--".
C1_Expected ==
    (IF caps.arg
     THEN [i \in 1..Len(Following) |-> ArgCall(Len(positional) + i - 1, Following[i], TRUE)]
     ELSE <<>>)
    \o (IF caps.args THEN << ArgsCall(positional, Following) >> ELSE <<>>)

C1_SeparatorEndsOptions ==
    [][ (AtCursor /\ entry \in { "Parse", "ParsePOSIX" } /\ Token = DDash) =>
          /\ pc' = "returned"
          /\ IsPrefix(calls, calls')
          /\ NoOptionCall(NewCalls)
          /\ IsPrefix(NewCalls, C1_Expected)
          /\ err' = cb'
          /\ err' = Nil => (NewCalls = C1_Expected /\ ret' = positional \o Following)
          /\ err' # Nil => (Len(NewCalls) >= 1 /\ ret' = <<>>) ]_vars

\* A separator followed by an option-like token and by a further "--", both
\* reported through Arg and returned.
C1_Witness ==
    /\ pc = "returned"
    /\ branch = "separator"
    /\ entry = "ParsePOSIX"
    /\ caps.arg /\ caps.args
    /\ err = Nil
    /\ input = << DDash, <<"-", "a">>, DDash >>
    /\ ret = << <<"-", "a">>, DDash >>
    /\ calls = << ArgCall(0, <<"-", "a">>, TRUE), ArgCall(1, DDash, TRUE),
                  ArgsCall(<<>>, << <<"-", "a">>, DDash >>) >>

\* C2 (as stated): for every input token -x1...xk (k >= 2) whose letters all
\* name Boolean options, wherever it stands in the input, the whole run
\* (calls, returned list, error) is the run on the input with that token
\* replaced by -x1, ..., -xk.
IsLetter(c) == c \notin { "-", "=" }

IsBoolCluster(tok) ==
    /\ Len(tok) >= 3
    /\ tok[1] = "-"
    /\ \A i \in 2..Len(tok) : IsLetter(tok[i]) /\ Kind(<< "-", tok[i] >>) = Boolean

Expand(tok) == [i \in 1..(Len(tok) - 1) |-> << "-", tok[i + 1] >>]

ReplaceAt(seq, i, toks) == SubSeq(seq, 1, i - 1) \o toks \o SubSeq(seq, i + 1, Len(seq))

SameRun(s, t) ==
    \A p \in PlansFor(s) \cup PlansFor(t) : Outcome(Run(s, p)) = Outcome(Run(t, p))

C2_AnyClusterToken ==
    branch = "start" =>
        \A i \in 1..Len(input) :
            IsBoolCluster(input[i]) =>
                SameRun(Start(input, entry, caps),
                        Start(ReplaceAt(input, i, Expand(input[i])), entry, caps))

\* C2 (amended): for every such token that the loop finds at the cursor as an
\* option (the exited flag is not set; a token consumed as a value or lying
\* after the separator never is at the cursor), the loop calls Kind(-x1),
\* Option(-x1, "", false), ..., Kind(-xk), Option(-xk, "", false) in that
\* order when no callback fails, and for every behaviour of the callbacks the
\* rest of the run is the run with the token replaced by -x1, ..., -xk.
C2_Dispatched(tok) ==
    [i \in 1..(2 * (Len(tok) - 1)) |->
        IF i % 2 = 1
        THEN KindCall(<< "-", tok[(i + 1) \div 2 + 1] >>)
        ELSE OptionCall(<< "-", tok[i \div 2 + 1] >>, <<>>, FALSE)]

C2_ClusterEquivalence ==
    (AtCursor /\ ~exited /\ IsBoolCluster(Token)) =>
        /\ SameRun(S, [S EXCEPT !.mem = ReplaceAt(mem, cur, Expand(Token))])
        /\ IsPrefix(calls \o C2_Dispatched(Token), Run(S, NoFail).calls)

\* The cluster -abc has been dispatched as -a, -b, -c after a positional.
C2_Witness ==
    /\ pc = "loop"
    /\ entry = "Parse"
    /\ input = << <<"k">>, <<"-", "a", "b", "c">>, <<"k">> >>
    /\ cur = 3
    /\ mem[2] = <<"-", "c">>
    /\ calls = << ArgCall(0, <<"k">>, FALSE) >> \o C2_Dispatched(input[2])

EarlyExitEntries == { "ParsePOSIX", "ParseS" }

ArgCalls(cs) == SelectSeq(cs, LAMBDA c : c.op = "Arg")

\* C3: in ParsePOSIX and ParseS, once a token has been classified as a
\* positional (the positional list is not empty), no iteration makes a Kind,
\* Option or OptionN call; an option-shaped token at the cursor is reported
\* through Arg(index, token, false) and appended to the positional list.
OptionShaped(tok) == HasPrefix(tok, Dash) /\ tok # Dash /\ tok # DDash

C3_NoOptionAfterPositional ==
    [][ (pc = "loop" /\ entry \in EarlyExitEntries /\ Len(positional) >= 1) =>
          /\ IsPrefix(calls, calls')
          /\ NoOptionCall(NewCalls)
          /\ (cur <= Len(mem) /\ OptionShaped(Token)) =>
                /\ branch' = "positional"
                /\ NewCalls = IF caps.arg
                              THEN << ArgCall(Len(positional), Token, FALSE) >>
                              ELSE <<>>
                /\ IF cb' = Nil
                   THEN pc' = "loop" /\ positional' = Append(positional, Token) /\ cur' = cur + 1
                   ELSE pc' = "returned" /\ err' = cb' ]_vars

\* -a after the positional k was reported through Arg and became a positional.
C3_Witness ==
    /\ pc = "loop"
    /\ entry = "ParsePOSIX"
    /\ caps.arg
    /\ input = << <<"-", "a">>, <<"k">>, <<"-", "a">> >>
    /\ cur = 4
    /\ positional = << <<"k">>, <<"-", "a">> >>
    /\ calls = << KindCall(<<"-", "a">>), OptionCall(<<"-", "a">>, <<>>, FALSE),
                  ArgCall(0, <<"k">>, FALSE), ArgCall(1, <<"-", "a">>, FALSE) >>

\* C4 (as stated): in ParsePOSIX and ParseS, once the exited flag is set,
\* every later token is classified by the forced-positional case, every Arg
\* call has afterDDash = false, and a successful call returns every token
\* from the first positional on.
FirstPositional == cur - Len(positional)

C4_EveryTokenPositional ==
    (entry \in EarlyExitEntries /\ exited) =>
        /\ branch \in { "positional", "end" }
        /\ \A i \in 1..Len(calls) : calls[i].op = "Arg" => ~calls[i].afterDDash
        /\ (pc \in { "returned", "done" } /\ err = Nil) =>
              ret = SubSeq(input, FirstPositional, Len(input))

\* C4 (amended): in ParsePOSIX and ParseS, once the exited flag is set, every
\* later token is classified by the forced-positional case (reported with
\* afterDDash = false and appended to the positional list), except that in
\* ParsePOSIX a "--" at the cursor still is the separator: it is not a
\* positional, and the tokens after it are reported with afterDDash = true.
\* A successful call returns every token from the first positional on,
\* without that separator.
C4_ExitedForcesPositional ==
    (entry \in EarlyExitEntries /\ exited) =>
        /\ FirstPositional >= 1
        /\ positional = SubSeq(input, FirstPositional, cur - 1)
        /\ \/ branch \in { "positional", "end" }
           \/ branch = "separator" /\ entry = "ParsePOSIX" /\ input[cur] = DDash
        /\ entry = "ParsePOSIX" => \A i \in 1..Len(positional) : positional[i] # DDash
        /\ (caps.arg /\ branch # "separator" /\ cb = Nil) =>
              ArgCalls(calls) = [i \in 1..Len(positional) |-> ArgCall(i - 1, positional[i], FALSE)]
        /\ (pc \in { "returned", "done" } /\ err = Nil) =>
              ret = IF branch = "separator"
                    THEN positional \o SubSeq(input, cur + 1, Len(input))
                    ELSE SubSeq(input, FirstPositional, Len(input))

\* ParsePOSIX: after the first positional, -a was a forced positional and the
\* "--" after it was the separator; both positionals are returned.
C4_Witness ==
    /\ pc = "done"
    /\ entry = "ParsePOSIX"
    /\ exited
    /\ err = Nil
    /\ branch = "separator"
    /\ input = << <<"k">>, <<"-", "a">>, DDash >>
    /\ ret = << <<"k">>, <<"-", "a">> >>

\* C5: in ParseS "--" is never the separator.  A "--" at the cursor is
\* reported through Arg(index, "--", false), appended to the positional list
\* and sets the exited flag; every Arg call of a ParseS run has afterDDash =
\* false, and the after-list of every Args call is empty.
C5_NoSeparatorCalls ==
    entry = "ParseS" =>
        /\ branch # "separator"
        /\ \A i \in 1..Len(calls) :
              /\ calls[i].op = "Arg" => ~calls[i].afterDDash
              /\ calls[i].op = "Args" => calls[i].after = <<>>

C5_DDashStep ==
    (AtCursor /\ entry = "ParseS" /\ Token = DDash) =>
        /\ branch' = "positional"
        /\ NewCalls = IF caps.arg THEN << ArgCall(Len(positional), DDash, FALSE) >> ELSE <<>>
        /\ IF cb' = Nil
           THEN /\ pc' = "loop"
                /\ positional' = Append(positional, DDash)
                /\ cur' = cur + 1
                /\ exited'
           ELSE pc' = "returned" /\ err' = cb'

C5_ParseSHasNoSeparator == [](C5_NoSeparatorCalls) /\ [][C5_DDashStep]_vars

\* ParseS took a leading "--" as the first positional: the -a after it was
\* not dispatched, and Args got everything as the before-list.
C5_Witness ==
    /\ pc = "done"
    /\ entry = "ParseS"
    /\ caps.arg /\ caps.args
    /\ err = Nil
    /\ input = << DDash, <<"-", "a">>, DDash >>
    /\ ret = input
    /\ calls = << ArgCall(0, DDash, FALSE), ArgCall(1, <<"-", "a">>, FALSE),
                  ArgCall(2, DDash, FALSE), ArgsCall(input, <<>>) >>

\* C6: ParseS returns ErrNoSubcommand exactly when parse returned no error and
\* an empty list; a failure of parse is returned as it is; and when ParseS
\* returns no error, the list it returns is the non-empty list of parse.
C6_ReturnStep ==
    (pc = "returned" /\ entry = "ParseS") =>
        /\ pc' = "done"
        /\ err' = ErrNoSubcommand <=> (err = Nil /\ ret = <<>>)
        /\ err # Nil => err' = err
        /\ err' = Nil => (ret' # <<>> /\ ret' = ret)
        /\ err' # Nil => ret' = <<>>

C6_Returned ==
    (pc = "done" /\ entry = "ParseS") =>
        /\ err = Nil => ret # <<>>
        /\ err = Nil <=> positional # <<>> /\ branch = "end" /\ cb = Nil
        /\ err = ErrNoSubcommand <=> positional = <<>> /\ branch = "end" /\ cb = Nil

C6_NoSubcommand == [](C6_Returned) /\ [][C6_ReturnStep]_vars

\* ParseS on an input made only of an option and its value.
C6_Witness ==
    /\ pc = "done"
    /\ entry = "ParseS"
    /\ err = ErrNoSubcommand
    /\ ret = <<>>
    /\ input = << <<"-", "r">>, <<"k">> >>
    /\ calls[2] = OptionCall(<<"-", "r">>, <<"k">>, TRUE)

\* The token at the cursor will be classified as an option.
AtOption == AtCursor /\ ~exited /\ OptionShaped(Token)

IsLong(tok) == HasPrefix(tok, DDash)

HasEquals(tok) == \E i \in 1..Len(tok) : tok[i] = "="

\* C7: for a name of Kind TakeTwoArgs with enough following tokens (and a
\* schema that implements OptionN), the iteration calls Kind and then OptionN
\* once, with the two values in input order, and never Option: the bare form
\* -s k v and the long form --s k v take the next two tokens and consume
\* three; the combined form -sk v takes the rest of the token and the next
\* token and consumes two.  The value tokens are not classified: no other
\* call is made, and the positional list and the exited flag do not change.
C7_Name ==
    IF IsLong(Token) \/ Len(Token) = 2 THEN Token ELSE SubSeq(Token, 1, 2)

C7_Combined == ~IsLong(Token) /\ Len(Token) > 2

C7_Values ==
    IF C7_Combined
    THEN << SubSeq(Token, 3, Len(Token)), Following[1] >>
    ELSE << Following[1], Following[2] >>

C7_Consumed == IF C7_Combined THEN 2 ELSE 3

C7_TwoValueStep ==
    (/\ AtOption
     /\ caps.optionN
     /\ ~(IsLong(Token) /\ HasEquals(Token))
     /\ Kind(C7_Name) = TakeTwoArgs
     /\ Len(Following) >= C7_Consumed - 1) =>
        /\ NewCalls = << KindCall(C7_Name), OptionNCall(C7_Name, C7_Values) >>
        /\ calls' = calls \o NewCalls
        /\ positional' = positional
        /\ exited' = exited
        /\ mem' = mem
        /\ IF cb' = Nil
           THEN pc' = "loop" /\ cur' = cur + C7_Consumed
           ELSE pc' = "returned" /\ err' # Nil

C7_TwoValueOption == [][C7_TwoValueStep]_vars

\* The combined form -sk took "--" as its second value, and the bare form
\* -s after it has the next two tokens within reach.
C7_Witness ==
    /\ pc = "loop"
    /\ entry = "ParsePOSIX"
    /\ input = << <<"-", "s", "k">>, DDash, <<"-", "a">> >>
    /\ cur = 3
    /\ positional = <<>>
    /\ ~exited
    /\ calls = << KindCall(<<"-", "s">>), OptionNCall(<<"-", "s">>, << <<"k">>, DDash >>) >>

\* C8 (as stated): parsing ["-s=k", v] fails and does not call OptionN.
C8_ShortEqualsFails ==
    (pc \in { "returned", "done" } /\ input = << <<"-", "s", "=", "k">>, <<"k">> >>) =>
        /\ err # Nil
        /\ \A i \in 1..Len(calls) : calls[i].op # "OptionN"

\* C8 (amended): in the combined short form "=" is an ordinary character.
\* For -s=k followed by a token, the engine raises no failure of its own: it
\* calls OptionN once with the rest of the token ("=k") and the next token,
\* and fails only if OptionN does.  Only the long form written with "="
\* (--s=k) fails, before any OptionN call.
C8_ShortStep ==
    (/\ AtOption
     /\ caps.optionN
     /\ C7_Combined
     /\ Kind(C7_Name) = TakeTwoArgs
     /\ Token[3] = "="
     /\ Len(Following) >= 1) =>
        /\ NewCalls = << KindCall(C7_Name),
                         OptionNCall(C7_Name, << SubSeq(Token, 3, Len(Token)), Following[1] >>) >>
        /\ IF cb' = Nil
           THEN pc' = "loop" /\ cur' = cur + 2
           ELSE pc' = "returned" /\ err' # Nil

C8_LongName ==
    LET i == CHOOSE i \in 1..Len(Token) : Token[i] = "=" /\ \A j \in 1..(i - 1) : Token[j] # "="
    IN  SubSeq(Token, 1, i - 1)

C8_LongStep ==
    (/\ AtOption
     /\ IsLong(Token)
     /\ HasEquals(Token)
     /\ Kind(C8_LongName) = TakeTwoArgs) =>
        /\ NewCalls = << KindCall(C8_LongName) >>
        /\ pc' = "returned"
        /\ ret' = <<>>
        /\ err' = Errorf("option %s takes 2 arguments; %s=VALUE form is not permitted",
                         C8_LongName, Nil)

C8_EqualsForm == [][C8_ShortStep /\ C8_LongStep]_vars

\* Parse(["-s=k", "k"]) returned without error after OptionN(-s, ["=k", "k"]).
C8_Witness ==
    /\ pc = "done"
    /\ entry = "Parse"
    /\ input = << <<"-", "s", "=", "k">>, <<"k">> >>
    /\ err = Nil
    /\ calls[2] = OptionNCall(<<"-", "s">>, << <<"=", "k">>, <<"k">> >>)

\* C9: every failure the engine itself raises (no callback failed) is
\* classified as ErrCmdline by errors.Is: a Required option with no value
\* left, a Boolean long option given "=value", a two-value option given
\* "=value" or too few values, a clustered Boolean followed by "-", a name of
\* Kind Unknown, and ErrNoSubcommand from ParseS.  So is each of the four
\* sentinels, and every error whose outermost layer was built by Errorf.
Sentinels == { ErrHelp, ErrVersion, ErrUnknown, ErrNoSubcommand }

EngineFormats ==
    { "option %s requires an argument",
      "option %s takes no argument",
      "option %s takes 2 arguments; %s=VALUE form is not permitted",
      "option %s requires 2 arguments",
      "invalid option '-'",
      "unknown option %q",
      "no subcommand was provided" }

C9_EngineFailuresAreCmdline ==
    /\ (pc \in { "returned", "done" } /\ err # Nil /\ cb = Nil) =>
          /\ Head(err).fmt \in EngineFormats
          /\ ErrIs(err, ErrCmdline)
    /\ (pc \in { "returned", "done" } /\ err # Nil /\ cb # Nil /\ err # cb) =>
          ErrIs(err, ErrCmdline)
    /\ \A e \in Sentinels : ErrIs(e, ErrCmdline)
    /\ \A e \in CallbackErrs \cup { err } :
          (e # Nil /\ Head(e).tagged) => ErrIs(e, ErrCmdline)

\* Parse(["-a-"]) failed in the engine, before any callback but Kind.
C9_Witness ==
    /\ pc = "done"
    /\ input = << <<"-", "a", "-">> >>
    /\ err = Errorf("invalid option '-'", <<>>, Nil)
    /\ cb = Nil
    /\ calls = << KindCall(<<"-", "a">>) >>

\* C10: when Option returns a failure other than ErrUnknown, the entry point
\* returns an error with the message "option <name>: <cause>" that errors.Is
\* classifies as ErrCmdline and still identifies as the cause returned by
\* Option (ErrHelp; for strconv's error, also the ErrSyntax it wraps).
LastCall == calls[Len(calls)]

C10_OptionFailureWrapped ==
    (/\ pc \in { "returned", "done" }
     /\ calls # <<>>
     /\ LastCall.op = "Option"
     /\ cb # Nil
     /\ cb # ErrUnknown) =>
        /\ ret = <<>>
        /\ Len(err) = Len(cb) + 1
        /\ Head(err).fmt = "option %s: %w"
        /\ Head(err).name = LastCall.name
        /\ Tail(err) = cb
        /\ ErrIs(err, ErrCmdline)
        /\ ErrIs(err, cb)
        /\ cb = ErrNum => ErrIs(err, ErrSyntax)
        /\ \A e \in Sentinels \ { cb } : ~ErrIs(err, e)

\* ParseS(["-r", "k"]) where Option returned strconv's error for the value.
C10_Witness ==
    /\ pc = "done"
    /\ entry = "ParseS"
    /\ input = << <<"-", "r">>, <<"k">> >>
    /\ calls = << KindCall(<<"-", "r">>), OptionCall(<<"-", "r">>, <<"k">>, TRUE) >>
    /\ cb = ErrNum
    /\ ErrIs(err, ErrSyntax)
    /\ ErrIs(err, ErrCmdline)

\* The run has ended on a failure of the callback op.
FailedIn(op) ==
    /\ pc \in { "returned", "done" }
    /\ calls # <<>>
    /\ LastCall.op = op
    /\ cb # Nil

C12_SameWrappingRule ==
    FailedIn("OptionN") =>
        /\ cb = ErrUnknown => err = Errorf("unknown option %q", LastCall.name, Nil)
        /\ cb # ErrUnknown =>
              /\ err = Errorf("option %s: %w", LastCall.name, cb)
              /\ ErrIs(err, cb)

\* Parse(["--s", "k", "k"]) where OptionN returned ErrUnknown: the long form
\* wraps it as any other failure.
C12_Witness ==
    /\ pc = "done"
    /\ entry = "Parse"
    /\ input = << <<"-", "-", "s">>, <<"k">>, <<"k">> >>
    /\ calls = << KindCall(<<"-", "-", "s">>),
                  OptionNCall(<<"-", "-", "s">>, << <<"k">>, <<"k">> >>) >>
    /\ cb = ErrUnknown
    /\ err = Errorf("option %s: %w", <<"-", "-", "s">>, ErrUnknown)
    /\ ErrIs(err, ErrUnknown)

\* The name the iteration passes to Kind for the option at the cursor.
ClassifiedName == IF IsLong(Token) /\ HasEquals(Token) THEN C8_LongName ELSE C7_Name

\* The option at the cursor is of Kind TakeTwoArgs and the schema does not
\* implement OptionN.
MissingOptionN == AtOption /\ ~caps.optionN /\ Kind(ClassifiedName) = TakeTwoArgs

\* The two-value option at the cursor is well formed: it is not written with
\* "=" in the long form, and enough tokens follow it.
TwoValuesAvailable ==
    /\ ~(IsLong(Token) /\ HasEquals(Token))
    /\ Len(Following) >= C7_Consumed - 1

\* C13 (as stated): whenever Kind returns TakeTwoArgs for the name at the
\* cursor and the schema does not implement OptionN, the iteration panics.
C13_AlwaysPanics == [][MissingOptionN => pc' = "panic"]_vars

\* C13 (amended): when Kind returns TakeTwoArgs for the name at the cursor and
\* the schema does not implement OptionN, the iteration panics if the option
\* is well formed (no "=" in the long form, enough tokens after it): nothing
\* is returned and no callback follows Kind.  The syntax of the option is
\* checked first: written with "=" in the long form, or followed by too few
\* tokens, it makes parse return an error classified as ErrCmdline, without
\* a panic.  A run panics in no other case.
C13_PanicStep ==
    MissingOptionN =>
        /\ NewCalls = << KindCall(ClassifiedName) >>
        /\ calls' = calls \o NewCalls
        /\ IF TwoValuesAvailable
           THEN pc' = "panic" /\ err' = Nil /\ ret' = <<>>
           ELSE /\ pc' = "returned"
                /\ ret' = <<>>
                /\ err' # Nil
                /\ Head(err').fmt \in
                      { "option %s takes 2 arguments; %s=VALUE form is not permitted",
                        "option %s requires 2 arguments" }
                /\ ErrIs(err', ErrCmdline)

C13_PanicOnlyThen ==
    pc = "panic" =>
        /\ ~caps.optionN
        /\ calls # <<>>
        /\ LastCall.op = "Kind"
        /\ Kind(LastCall.name) = TakeTwoArgs
        /\ err = Nil
        /\ ret = <<>>

C13_MissingOptionN == [](C13_PanicOnlyThen) /\ [][C13_PanicStep]_vars

\* Parse(["-a", "-sk", "k"]) on a schema without OptionN: -a was dispatched,
\* then the run panicked on -sk.
C13_Witness ==
    /\ pc = "panic"
    /\ entry = "Parse"
    /\ ~caps.optionN
    /\ input = << <<"-", "a">>, <<"-", "s", "k">>, <<"k">> >>
    /\ calls = << KindCall(<<"-", "a">>), OptionCall(<<"-", "a">>, <<>>, FALSE),
                  KindCall(<<"-", "s">>) >>

Finished == pc \in { "returned", "done" }

ArgsCalls(cs) == SelectSeq(cs, LAMBDA c : c.op = "Args")

\* The loop reached the separator or the end of the input, and no Arg call
\* of the separator failed.
ReachedArgs ==
    /\ Finished
    /\ branch \in { "separator", "end" }
    /\ ~(calls # <<>> /\ LastCall.op = "Arg" /\ cb # Nil)

\* C14 (as stated): for a schema that implements Args, every call of an entry
\* point, once over, has called Args exactly once.
C14_ExactlyOncePerCall ==
    (caps.args /\ pc \in { "returned", "done", "panic" }) => Len(ArgsCalls(calls)) = 1

\* C14 (amended): for a schema that implements Args, Args is called at most
\* once per call of an entry point, as the last callback: at the separator,
\* with the positionals so far and the tokens after the separator, or at the
\* end of the input, with all the positionals and no after-list; never at
\* both.  It is called exactly once in every call that reaches the separator
\* or the end of the input without an earlier failure (so in every successful
\* call), and not at all in a call that fails or panics before.
C14_ArgsAtMostOnce ==
    caps.args =>
        /\ Len(ArgsCalls(calls)) <= 1
        /\ pc = "loop" => ArgsCalls(calls) = <<>>
        /\ pc = "panic" => ArgsCalls(calls) = <<>>
        /\ Finished => (Len(ArgsCalls(calls)) = 1 <=> ReachedArgs)
        /\ (Finished /\ err = Nil) => Len(ArgsCalls(calls)) = 1
        /\ ArgsCalls(calls) # <<>> =>
              /\ LastCall.op = "Args"
              /\ LastCall.before = positional
              /\ LastCall.after = IF branch = "separator"
                                  THEN SubSeq(input, cur + 1, Len(input))
                                  ELSE <<>>

\* Parse(["k", "--", "-a"]): Args was called once, at the separator, and not
\* again at the end.
C14_Witness ==
    /\ pc = "done"
    /\ entry = "Parse"
    /\ caps.args
    /\ err = Nil
    /\ input = << <<"k">>, DDash, <<"-", "a">> >>
    /\ ArgsCalls(calls) = << ArgsCall(<< <<"k">> >>, << <<"-", "a">> >>) >>

Values(cs) == [i \in 1..Len(cs) |-> cs[i].value]

\* C15: in every successful call of Parse, ParsePOSIX or ParseS, the list
\* returned is the before-list passed to Args followed by the after-list
\* passed to Args (for a schema that implements Args), and is the sequence of
\* the values passed to the Arg calls, in the order of the calls (for a
\* schema that implements Arg).
C15_RoundTrip ==
    (Finished /\ err = Nil) =>
        /\ caps.args =>
              /\ Len(ArgsCalls(calls)) = 1
              /\ ret = ArgsCalls(calls)[1].before \o ArgsCalls(calls)[1].after
        /\ caps.arg => ret = Values(ArgCalls(calls))

\* ParsePOSIX(["-a", "k", "-x"]): k and -x were reported through Arg, passed
\* to Args as the before-list, and returned.
C15_Witness ==
    /\ pc = "done"
    /\ entry = "ParsePOSIX"
    /\ caps.arg /\ caps.args
    /\ err = Nil
    /\ input = << <<"-", "a">>, <<"k">>, <<"-", "x">> >>
    /\ ret = << <<"k">>, <<"-", "x">> >>
    /\ Values(ArgCalls(calls)) = ret
    /\ LastCall = ArgsCall(ret, <<>>)

NoOptionShaped(toks) == \A i \in 1..Len(toks) : ~OptionShaped(toks[i])

\* C16 (as stated): for a non-empty input without option-shaped token, every
\* entry point, when no callback fails, returns the input as it is and calls
\* neither Option nor OptionN.
C16_ReturnsInput ==
    (pc = "done" /\ NoOptionShaped(input) /\ input # <<>> /\ cb = Nil) =>
        /\ err = Nil
        /\ ret = input
        /\ NoOptionCall(calls)

\* C16 (amended): for an input without option-shaped token (every token is
\* "-", "--" or does not start with "-"), no entry point calls Kind, Option
\* or OptionN.  When no callback fails, ParseS returns the input as it is
\* (and ErrNoSubcommand for the empty input), while Parse and ParsePOSIX
\* return the input without its first "--", which is the separator.  When Arg
\* or Args fails, that failure is returned instead.
WithoutSeparator(toks) ==
    LET at == { i \in 1..Len(toks) : toks[i] = DDash }
    IN  IF at = {} THEN toks
        ELSE LET i == CHOOSE i \in at : \A j \in at : i <= j
             IN  SubSeq(toks, 1, i - 1) \o SubSeq(toks, i + 1, Len(toks))

C16_PositionalsOnly ==
    NoOptionShaped(input) =>
        /\ NoOptionCall(calls)
        /\ pc # "panic"
        /\ branch \in { "start", "separator", "positional", "end" }
        /\ (Finished /\ cb # Nil) => (err = cb /\ ret = <<>>)
        /\ (Finished /\ cb = Nil) =>
              IF entry = "ParseS" /\ input = <<>> /\ pc = "done"
              THEN err = ErrNoSubcommand /\ ret = <<>>
              ELSE /\ err = Nil
                   /\ ret = IF entry = "ParseS" THEN input ELSE WithoutSeparator(input)

\* ParsePOSIX(["-", "--", "--"]): "-" is a positional, the first "--" is the
\* separator and the second one a positional after it.
C16_Witness ==
    /\ pc = "done"
    /\ entry = "ParsePOSIX"
    /\ caps.arg
    /\ err = Nil
    /\ input = << Dash, DDash, DDash >>
    /\ ret = << Dash, DDash >>
    /\ calls = << ArgCall(0, Dash, FALSE), ArgCall(1, DDash, TRUE),
                  ArgsCall(<< Dash >>, << DDash >>) >>

\* The option at the cursor is a name alone: -x, or --x without "=".
NameAlone == AtOption /\ ~HasEquals(Token) /\ (IsLong(Token) \/ Len(Token) = 2)

\* C17: a Required option written as a name alone (bare -r, or long --r
\* without "=") that is the last token makes parse return the failure
\* "option <name> requires an argument", classified as ErrCmdline: the
\* iteration calls Kind only, never Option, and does not panic.
C17_MissingValueStep ==
    (NameAlone /\ Kind(Token) = Required /\ Following = <<>>) =>
        /\ NewCalls = << KindCall(Token) >>
        /\ calls' = calls \o NewCalls
        /\ cb' = cb
        /\ pc' = "returned"
        /\ ret' = <<>>
        /\ err' = Errorf("option %s requires an argument", Token, Nil)
        /\ ErrIs(err', ErrCmdline)

C17_RequiredMissingValue == [][C17_MissingValueStep]_vars

\* Parse(["-a", "--r"]): -a was dispatched, then --r found no value.
C17_Witness ==
    /\ pc = "done"
    /\ entry = "Parse"
    /\ input = << <<"-", "a">>, <<"-", "-", "r">> >>
    /\ calls = << KindCall(<<"-", "a">>), OptionCall(<<"-", "a">>, <<>>, FALSE),
                  KindCall(<<"-", "-", "r">>) >>
    /\ err = Errorf("option %s requires an argument", <<"-", "-", "r">>, Nil)
    /\ ErrIs(err, ErrCmdline)

\* C18: a two-value option with too few values fails without a call of
\* OptionN, with a failure classified as ErrCmdline: the long form written
\* with "=" (--s=k v) fails with "takes 2 arguments; =VALUE form is not
\* permitted"; the long and bare forms followed by fewer than two tokens
\* (--s v, -s v) and the combined form followed by no token (-sk) fail with
\* "requires 2 arguments".  The iteration calls Kind only, whether the schema
\* implements OptionN or not.
C18_TooFewStep ==
    (AtOption /\ Kind(ClassifiedName) = TakeTwoArgs /\ ~TwoValuesAvailable) =>
        /\ NewCalls = << KindCall(ClassifiedName) >>
        /\ calls' = calls \o NewCalls
        /\ cb' = cb
        /\ pc' = "returned"
        /\ ret' = <<>>
        /\ err' = IF IsLong(Token) /\ HasEquals(Token)
                  THEN Errorf("option %s takes 2 arguments; %s=VALUE form is not permitted",
                              ClassifiedName, Nil)
                  ELSE Errorf("option %s requires 2 arguments", ClassifiedName, Nil)
        /\ ErrIs(err', ErrCmdline)

C18_TooFewValues == [][C18_TooFewStep]_vars

\* ParsePOSIX(["-a", "-s", "k"]): one token follows the bare -s.
C18_Witness ==
    /\ pc = "done"
    /\ entry = "ParsePOSIX"
    /\ caps.optionN
    /\ input = << <<"-", "a">>, <<"-", "s">>, <<"k">> >>
    /\ calls = << KindCall(<<"-", "a">>), OptionCall(<<"-", "a">>, <<>>, FALSE),
                  KindCall(<<"-", "s">>) >>
    /\ err = Errorf("option %s requires 2 arguments", <<"-", "s">>, Nil)

Callbacks == { "Option", "OptionN", "Arg", "Args" }

\* The calls made once the iteration at hand is over, when no callback of it fails.
FailureFreeCalls == Step(S, NoFail).calls

\* C19: parsing stops at the first failure.  A callback that fails is the
\* last call of the run; a failure raised by the engine follows the Kind call
\* that classified the token; once parse has returned, no call is added.  The
\* calls an iteration makes up to a failure are the first calls the iteration
\* makes when no callback fails, in the same order (the order of the input),
\* and no call already made is taken back.
C19_FailureIsLast ==
    /\ cb # Nil =>
          /\ Finished
          /\ err # Nil
          /\ ret = <<>>
          /\ LastCall.op \in Callbacks
    /\ (Finished /\ err # Nil /\ cb = Nil) =>
          \/ calls # <<>> /\ LastCall.op = "Kind" /\ Head(err).fmt \in EngineFormats
          \/ pc = "done" /\ err = ErrNoSubcommand /\ branch = "end"

C19_NoCallAfterReturn ==
    /\ IsPrefix(calls, calls')
    /\ pc = "loop" =>
          /\ IsPrefix(calls', FailureFreeCalls)
          /\ cb' = Nil => calls' = FailureFreeCalls
    /\ Finished => (calls' = calls /\ cb' = cb)
    /\ (Finished /\ err # Nil) => (err' = err /\ ret' = <<>>)

C19_StopsAtFirstFailure == [](C19_FailureIsLast) /\ [][C19_NoCallAfterReturn]_vars

\* Parse(["--", "k", "-a"]): the first Arg call of the separator failed; the
\* token after it was not reported, and Args was not called.
C19_Witness ==
    /\ pc = "done"
    /\ entry = "Parse"
    /\ caps.arg /\ caps.args
    /\ input = << DDash, <<"k">>, <<"-", "a">> >>
    /\ calls = << ArgCall(0, <<"k">>, TRUE) >>
    /\ cb = ErrHelp
    /\ err = ErrHelp

\* C20: the index of each Arg call is the number of Arg calls made before it
\* in the run: the indices are 0, 1, 2, ... in call order, without gap or
\* repetition.  They continue across the separator: the Arg calls with
\* afterDDash = false come first and are as many as the positionals before
\* the separator, so that the first call with afterDDash = true has the
\* length of the before-list as its index.
C20_AfterDDash == { i \in 1..Len(ArgCalls(calls)) : ArgCalls(calls)[i].afterDDash }

C20_ArgIndices ==
    caps.arg =>
        /\ \A i \in 1..Len(ArgCalls(calls)) : ArgCalls(calls)[i].index = i - 1
        /\ \A i \in C20_AfterDDash :
              /\ branch = "separator"
              /\ i > Len(positional)
              /\ ArgCalls(calls)[i].value = input[cur + i - Len(positional)]
              /\ \A j \in (i + 1)..Len(ArgCalls(calls)) : j \in C20_AfterDDash
        /\ (C20_AfterDDash # {} /\ LastCall.op = "Args") =>
              \E i \in C20_AfterDDash :
                  /\ ArgCalls(calls)[i].index = Len(LastCall.before)
                  /\ \A j \in C20_AfterDDash : i <= j
        /\ (pc = "loop" \/ branch = "end") =>
              Len(ArgCalls(calls)) \in { Len(positional), Len(positional) + 1 }

\* ParsePOSIX(["k", "--", "k"]): index 0 before the separator, 1 after it.
C20_Witness ==
    /\ pc = "done"
    /\ entry = "ParsePOSIX"
    /\ caps.arg /\ caps.args
    /\ err = Nil
    /\ input = << <<"k">>, DDash, <<"k">> >>
    /\ calls = << ArgCall(0, <<"k">>, FALSE), ArgCall(1, <<"k">>, TRUE),
                  ArgsCall(<< <<"k">> >>, << <<"k">> >>) >>

\* The iteration from the current state went through: no callback failed, no
\* failure was raised and nothing panicked.
StepSucceeds == pc = "loop" /\ cb' = Nil /\ err' = Nil /\ pc' # "panic"

\* How many tokens the iteration took from the remaining sequence.
Taken == cur' - cur

\* C21: in a successful run every input token goes through exactly one
\* path.  Each successful iteration takes the tokens from the cursor on, none
\* skipped, in exactly one of these ways: (separator) "--" is consumed, and
\* every token after it is returned as a positional and reported through
\* Arg, without any option call; (positional) one token is appended to the
\* positional list, without any option call; (option) Kind and then one
\* Option or OptionN call are made for a name read from the token, no Arg call
\* is made, the positional list is unchanged, and the one or two tokens taken
\* after the option token are the value or values passed to that call; a
\* cluster of Boolean options stays at the cursor, shortened, and takes no
\* other token.  At the end every token of the input has been taken.
C21_SeparatorPath ==
    /\ Token = DDash
    /\ pc' = "returned"
    /\ ret' = positional \o Following
    /\ positional' = positional
    /\ NoOptionCall(NewCalls)
    /\ caps.arg => Values(ArgCalls(NewCalls)) = Following

C21_PositionalPath ==
    /\ pc' = "loop"
    /\ Taken = 1
    /\ positional' = Append(positional, Token)
    /\ NoOptionCall(NewCalls)
    /\ caps.arg => NewCalls = << ArgCall(Len(positional), Token, FALSE) >>

C21_OptionPath ==
    /\ pc' = "loop"
    /\ positional' = positional
    /\ Len(NewCalls) = 2
    /\ NewCalls[1].op = "Kind"
    /\ NewCalls[2].op \in { "Option", "OptionN" }
    /\ NewCalls[2].name = NewCalls[1].name
    /\ IsPrefix(NewCalls[1].name, Token)
    /\ Taken \in 0..3
    /\ Taken = 0 =>
          /\ NewCalls[2] = OptionCall(SubSeq(Token, 1, 2), <<>>, FALSE)
          /\ Len(mem'[cur]) = Len(Token) - 1
          /\ mem'[cur] = Dash \o SubSeq(Token, 3, Len(Token))
    /\ Taken >= 1 => mem' = mem
    /\ (Taken = 2 /\ NewCalls[2].op = "Option") =>
          NewCalls[2].hasValue /\ NewCalls[2].value = mem[cur + 1]
    /\ (Taken = 2 /\ NewCalls[2].op = "OptionN") =>
          NewCalls[2].values = << SubSeq(Token, 3, Len(Token)), mem[cur + 1] >>
    /\ Taken = 3 =>
          /\ NewCalls[2].op = "OptionN"
          /\ NewCalls[2].values = << mem[cur + 1], mem[cur + 2] >>
    /\ (Taken = 1 /\ NewCalls[2].op = "Option" /\ NewCalls[2].hasValue) =>
          Token = NewCalls[1].name \o (IF IsLong(Token) THEN << "=" >> ELSE <<>>)
                    \o NewCalls[2].value
    /\ (Taken = 1 /\ NewCalls[2].op = "Option" /\ ~NewCalls[2].hasValue) =>
          Token = NewCalls[1].name /\ NewCalls[2].value = <<>>

C21_EndPath ==
    /\ pc' = "returned"
    /\ ret' = positional
    /\ NewCalls = IF caps.args THEN << ArgsCall(positional, <<>>) >> ELSE <<>>

C21_OnePathStep ==
    StepSucceeds =>
        /\ cur' <= Len(mem) + 1
        /\ branch' = "separator" => C21_SeparatorPath
        /\ branch' = "positional" => C21_PositionalPath
        /\ branch' \in { "long", "cluster", "bare" } => C21_OptionPath
        /\ branch' = "end" => C21_EndPath

C21_AllTaken ==
    /\ Len(positional) <= cur - 1
    /\ cur <= Len(input) + 1
    /\ Len(mem) = Len(input)
    /\ (Finished /\ branch = "end") => cur = Len(input) + 1
    /\ (Finished /\ err = Nil) =>
          ret = IF branch = "separator"
                THEN positional \o SubSeq(input, cur + 1, Len(input))
                ELSE positional

C21_OnePath == [](C21_AllTaken) /\ [][C21_OnePathStep]_vars

\* Parse(["-rk", "-ab", "k"]): -rk is an option with its value attached, -ab
\* two options in one token, and k a positional.
C21_Witness ==
    /\ pc = "done"
    /\ entry = "Parse"
    /\ caps.arg /\ caps.args
    /\ err = Nil
    /\ input = << <<"-", "r", "k">>, <<"-", "a", "b">>, <<"k">> >>
    /\ ret = << <<"k">> >>
    /\ calls = << KindCall(<<"-", "r">>), OptionCall(<<"-", "r">>, <<"k">>, TRUE),
                  KindCall(<<"-", "a">>), OptionCall(<<"-", "a">>, <<>>, FALSE),
                  KindCall(<<"-", "b">>), OptionCall(<<"-", "b">>, <<>>, FALSE),
                  ArgCall(0, <<"k">>, FALSE), ArgsCall(<< <<"k">> >>, <<>>) >>

\* The text after the first "=" of the token at the cursor.
AfterEquals ==
    LET i == CHOOSE i \in 1..Len(Token) : Token[i] = "=" /\ \A j \in 1..(i - 1) : Token[j] # "="
    IN  SubSeq(Token, i + 1, Len(Token))

\* The iteration dispatched Option(name, value, true), and took n tokens
\* without classifying any of them but the option itself.
TookValue(name, value, n) ==
    /\ NewCalls = << KindCall(name), OptionCall(name, value, TRUE) >>
    /\ calls' = calls \o NewCalls
    /\ branch' \in { "long", "cluster", "bare" }
    /\ IF cb' = Nil
       THEN /\ pc' = "loop"
            /\ cur' = cur + n
            /\ positional' = positional
            /\ exited' = exited
            /\ mem' = mem
       ELSE pc' = "returned" /\ err' # Nil

\* C22: a Required option takes its value as it is written.  For the long
\* form with "=", the value is the text after the first "=", possibly empty,
\* and one token is consumed.  For the long form without "=" and for the bare
\* short form, the value is the next token whatever its shape ("--", "-", an
\* option-like token), and two tokens are consumed: the value token is not
\* the separator, not a positional (no Arg call, the positional list and the
\* exited flag do not change) and not an option (no Kind call for it).
C22_RequiredStep ==
    /\ (AtOption /\ IsLong(Token) /\ HasEquals(Token) /\ Kind(C8_LongName) = Required) =>
          TookValue(C8_LongName, AfterEquals, 1)
    /\ (NameAlone /\ Kind(Token) = Required /\ Following # <<>>) =>
          TookValue(Token, Following[1], 2)

C22_RequiredValue == [][C22_RequiredStep]_vars

\* ParsePOSIX(["--r", "--", "-a"]): "--" was the value of --r, so that -a
\* after it still was an option.
C22_Witness ==
    /\ pc = "done"
    /\ entry = "ParsePOSIX"
    /\ caps.arg /\ caps.args
    /\ err = Nil
    /\ ~exited
    /\ input = << <<"-", "-", "r">>, DDash, <<"-", "a">> >>
    /\ ret = <<>>
    /\ calls = << KindCall(<<"-", "-", "r">>), OptionCall(<<"-", "-", "r">>, DDash, TRUE),
                  KindCall(<<"-", "a">>), OptionCall(<<"-", "a">>, <<>>, FALSE),
                  ArgsCall(<<>>, <<>>) >>

\* The iteration dispatched Option(name, "", false) and took the option token
\* alone: the token after it is the next one to be classified.
TookNoValue(name) ==
    /\ NewCalls = << KindCall(name), OptionCall(name, <<>>, FALSE) >>
    /\ calls' = calls \o NewCalls
    /\ IF cb' = Nil
       THEN /\ pc' = "loop"
            /\ cur' = cur + 1
            /\ positional' = positional
            /\ exited' = exited
            /\ mem' = mem
       ELSE pc' = "returned" /\ err' # Nil

\* C23: an Optional option never consumes the token after it.  The long form
\* without "=" and the bare short form dispatch Option(name, "", false) and
\* consume one token, so that the next token is classified on its own.  The
\* long form with "=" dispatches the text after the first "=" with hasValue =
\* true, even when it is empty, and the combined short form -oVALUE the rest
\* of the token with hasValue = true; both consume one token.
C23_OptionalStep ==
    /\ (NameAlone /\ Kind(Token) = Optional) => TookNoValue(Token)
    /\ (AtOption /\ IsLong(Token) /\ HasEquals(Token) /\ Kind(C8_LongName) = Optional) =>
          TookValue(C8_LongName, AfterEquals, 1)
    /\ (AtOption /\ C7_Combined /\ Kind(C7_Name) = Optional) =>
          TookValue(C7_Name, SubSeq(Token, 3, Len(Token)), 1)

C23_OptionalValue == [][C23_OptionalStep]_vars

\* Parse(["-o", "k", "--o="]): -o took no value, k after it was a positional,
\* and --o= had the empty value.
C23_Witness ==
    /\ pc = "done"
    /\ entry = "Parse"
    /\ caps.arg /\ caps.args
    /\ err = Nil
    /\ input = << <<"-", "o">>, <<"k">>, <<"-", "-", "o", "=">> >>
    /\ ret = << <<"k">> >>
    /\ calls = << KindCall(<<"-", "o">>), OptionCall(<<"-", "o">>, <<>>, FALSE),
                  ArgCall(0, <<"k">>, FALSE),
                  KindCall(<<"-", "-", "o">>), OptionCall(<<"-", "-", "o">>, <<>>, TRUE),
                  ArgsCall(<< <<"k">> >>, <<>>) >>

\* C24: a Boolean long option written with "=" (--a=k, and --a= with an
\* empty value) makes parse return "option <name> takes no argument",
\* classified as ErrCmdline, after the Kind call and without any Option call;
\* a Boolean long option without "=" is dispatched as Option(name, "", false)
\* and consumes exactly one token.
C24_BooleanStep ==
    /\ (AtOption /\ IsLong(Token) /\ HasEquals(Token) /\ Kind(C8_LongName) = Boolean) =>
          /\ NewCalls = << KindCall(C8_LongName) >>
          /\ calls' = calls \o NewCalls
          /\ cb' = cb
          /\ pc' = "returned"
          /\ ret' = <<>>
          /\ err' = Errorf("option %s takes no argument", C8_LongName, Nil)
          /\ ErrIs(err', ErrCmdline)
    /\ (NameAlone /\ IsLong(Token) /\ Kind(Token) = Boolean) =>
          TookNoValue(Token) /\ branch' = "long"

C24_BooleanLong == [][C24_BooleanStep]_vars

\* Parse(["--a", "--a="]): --a was dispatched, then --a= failed.
C24_Witness ==
    /\ pc = "done"
    /\ entry = "Parse"
    /\ input = << <<"-", "-", "a">>, <<"-", "-", "a", "=">> >>
    /\ calls = << KindCall(<<"-", "-", "a">>), OptionCall(<<"-", "-", "a">>, <<>>, FALSE),
                  KindCall(<<"-", "-", "a">>) >>
    /\ err = Errorf("option %s takes no argument", <<"-", "-", "a">>, Nil)

\* The token at the cursor has been rewritten by the iteration before.
Rewritten == AtCursor /\ Token # input[cur]

\* C25: when the token at the cursor is a cluster that starts with a Boolean
\* option, and the character after the option's letter is "-", parse returns
\* "invalid option '-'" after the Kind call, before any Option call for that
\* option; otherwise the token at the cursor becomes "-" followed by the
\* remainder, the cursor does not move, and Option(name, "", false) is
\* called.  A rewritten token is never "-", "--" or a long option, and the
\* exited flag is not set when it is classified: the next iteration takes it
\* as a combined or bare short option.
C25_ClusterStep ==
    (AtOption /\ C7_Combined /\ Kind(C7_Name) = Boolean) =>
        IF Token[3] = "-"
        THEN /\ NewCalls = << KindCall(C7_Name) >>
             /\ cb' = cb
             /\ pc' = "returned"
             /\ ret' = <<>>
             /\ err' = Errorf("invalid option '-'", <<>>, Nil)
             /\ mem' = mem
        ELSE /\ NewCalls = << KindCall(C7_Name), OptionCall(C7_Name, <<>>, FALSE) >>
             /\ mem' = [mem EXCEPT ![cur] = Dash \o SubSeq(Token, 3, Len(Token))]
             /\ cur' = cur
             /\ positional' = positional
             /\ exited' = exited
             /\ IF cb' = Nil THEN pc' = "loop" ELSE pc' = "returned" /\ err' # Nil

C25_RewrittenStep ==
    Rewritten =>
        /\ ~exited
        /\ branch = "cluster"
        /\ Len(Token) >= 2
        /\ Token[1] = "-"
        /\ Token[2] # "-"
        /\ branch' \in { "cluster", "bare" }
        /\ Len(NewCalls) >= 1
        /\ NewCalls[1] = KindCall(SubSeq(Token, 1, 2))

C25_ClusterRewrite == [][C25_ClusterStep /\ C25_RewrittenStep]_vars

\* Parse(["-abc"]): the token was rewritten to -bc, taken as a combined short
\* option, rewritten to -c and taken as a bare one.
C25_Witness ==
    /\ pc = "loop"
    /\ entry = "Parse"
    /\ input = << <<"-", "a", "b", "c">> >>
    /\ mem = << <<"-", "c">> >>
    /\ cur = 2
    /\ branch = "bare"
    /\ calls = C2_Dispatched(input[1])

\* C26: Args is the last callback of a run.  No call follows a call of Args:
\* it is made as parse returns.  At the separator, it follows the Arg calls
\* (afterDDash = true) for every token after the separator, in order; at the
\* end of the input, it follows every Option, OptionN and Arg call of the run.
C26_ArgsPosition ==
    \A i \in 1..Len(calls) :
        calls[i].op = "Args" =>
            /\ i = Len(calls)
            /\ Finished
            /\ branch \in { "separator", "end" }
            /\ calls[i].before = positional
            /\ branch = "end" => calls[i].after = <<>>
            /\ branch = "separator" =>
                  /\ calls[i].after = SubSeq(input, cur + 1, Len(input))
                  /\ caps.arg =>
                        /\ i > Len(calls[i].after)
                        /\ \A j \in 1..Len(calls[i].after) :
                              calls[i - Len(calls[i].after) + j - 1] =
                                  ArgCall(Len(positional) + j - 1, calls[i].after[j], TRUE)

C26_NothingAfterArgs ==
    (calls # <<>> /\ LastCall.op = "Args") => (calls' = calls /\ cb' = cb)

C26_ArgsIsLast == [](C26_ArgsPosition) /\ [][C26_NothingAfterArgs]_vars

\* Parse(["-a", "--", "-a"]): Option, then Arg for the token after the
\* separator, then Args.
C26_Witness ==
    /\ pc = "done"
    /\ entry = "Parse"
    /\ caps.arg /\ caps.args
    /\ err = Nil
    /\ input = << <<"-", "a">>, DDash, <<"-", "a">> >>
    /\ calls = << KindCall(<<"-", "a">>), OptionCall(<<"-", "a">>, <<>>, FALSE),
                  ArgCall(0, <<"-", "a">>, TRUE), ArgsCall(<<>>, << <<"-", "a">> >>) >>

\* C27: the exited flag.  In Parse it is false in every state, and an
\* option-shaped token at the cursor is classified as an option even after
\* positionals.  In ParsePOSIX and ParseS it is true exactly when a token has
\* been appended to the positional list: it is set by the iteration that
\* takes the first positional, not by an iteration that takes a token as the
\* value of an option.  Once true it stays true.
C27_ExitedIffPositional ==
    /\ entry = "Parse" => ~exited
    /\ entry \in EarlyExitEntries => (exited <=> positional # <<>>)

C27_ExitedStep ==
    /\ exited => exited'
    /\ (~exited /\ exited') =>
          /\ entry \in EarlyExitEntries
          /\ branch' = "positional"
          /\ positional = <<>>
          /\ positional' = << Token >>
    /\ (pc = "loop" /\ branch' \in { "long", "cluster", "bare", "separator" }) =>
          exited' = exited
    /\ (AtCursor /\ entry = "Parse" /\ OptionShaped(Token)) =>
          /\ branch' \in { "long", "cluster", "bare" }
          /\ Len(NewCalls) >= 1
          /\ NewCalls[1].op = "Kind"

C27_ExitedFlag == [](C27_ExitedIffPositional) /\ [][C27_ExitedStep]_vars

\* Parse(["k", "-a", "k"]): -a after the positional k was dispatched as an
\* option, and the flag never was set.
C27_Witness ==
    /\ pc = "done"
    /\ entry = "Parse"
    /\ caps.arg /\ caps.args
    /\ ~exited
    /\ err = Nil
    /\ input = << <<"k">>, <<"-", "a">>, <<"k">> >>
    /\ ret = << <<"k">>, <<"k">> >>
    /\ calls = << ArgCall(0, <<"k">>, FALSE),
                  KindCall(<<"-", "a">>), OptionCall(<<"-", "a">>, <<>>, FALSE),
                  ArgCall(1, <<"k">>, FALSE), ArgsCall(ret, <<>>) >>

\* C28: once an entry point has returned, with success or failure, the
\* caller's token sequence holds the tokens it held before the call.
C28_CallerTokensUnchanged == pc = "done" => mem = input

\* Parse(["-ab", "k"]) returned [k] without error, and the caller's first
\* token now is -b.
C28_Witness ==
    /\ pc = "done"
    /\ entry = "Parse"
    /\ err = Nil
    /\ input = << <<"-", "a", "b">>, <<"k">> >>
    /\ mem = << <<"-", "b">>, <<"k">> >>
    /\ ret = << <<"k">> >>

\* The number of characters of the tokens from the cursor on.
Remaining == Chars(SubSeq(mem, cur, Len(mem)))

\* C29: every call terminates when the callbacks return.  Each iteration of
\* the loop returns (or panics), or moves the cursor forward by at least one
\* token without touching the tokens, or leaves the cursor in place and
\* shortens the token under it (the rewrite of a Boolean cluster) without
\* adding a token; so the number of characters left from the cursor on
\* decreases at every iteration that does not leave the loop, and every call
\* ends: the entry point returns, or the call panics.
C29_IterationStep ==
    (pc = "loop" /\ pc' = "loop") =>
        /\ Len(mem') = Len(mem)
        /\ \/ cur' > cur /\ mem' = mem
           \/ /\ cur' = cur
              /\ cur <= Len(mem)
              /\ Len(mem'[cur]) < Len(mem[cur])
              /\ \A i \in 1..Len(mem) : i # cur => mem'[i] = mem[i]
        /\ cur' <= Len(mem) + 1
        /\ Remaining' < Remaining

C29_Terminates == <>(pc \in { "done", "panic" }) /\ [][C29_IterationStep]_vars

\* ParseS(["-abc", "k"]) has returned after five iterations: three for the
\* cluster, one for the positional, one for the end of the input.
C29_Witness ==
    /\ pc = "done"
    /\ entry = "ParseS"
    /\ err = Nil
    /\ input = << <<"-", "a", "b", "c">>, <<"k">> >>
    /\ mem = << <<"-", "c">>, <<"k">> >>
    /\ cur = 3
    /\ ret = << <<"k">> >>

OptionCalls(cs) == SelectSeq(cs, LAMBDA c : c.op = "Option")

\* C30: the arguments of every Option call agree with the Kind of its name.
\* Option is called only for a name of Kind Boolean, Required or Optional,
\* right after the Kind call for that name; for a Required name hasValue is
\* true; for a Boolean name hasValue is false and the value is empty; and
\* whenever hasValue is false the value is empty.
C30_OptionAgreesWithKind ==
    \A i \in 1..Len(calls) :
        calls[i].op = "Option" =>
            /\ Kind(calls[i].name) \in { Boolean, Required, Optional }
            /\ i > 1
            /\ calls[i - 1] = KindCall(calls[i].name)
            /\ Kind(calls[i].name) = Required => calls[i].hasValue
            /\ Kind(calls[i].name) = Boolean =>
                  ~calls[i].hasValue /\ calls[i].value = <<>>
            /\ ~calls[i].hasValue => calls[i].value = <<>>

\* Parse(["-ok", "--r=", "-ab"]): an Optional and a Required option with a
\* value, the second one empty, and two Boolean options.
C30_Witness ==
    /\ pc = "done"
    /\ entry = "Parse"
    /\ err = Nil
    /\ input = << <<"-", "o", "k">>, <<"-", "-", "r", "=">>, <<"-", "a", "b">> >>
    /\ OptionCalls(calls) =
          << OptionCall(<<"-", "o">>, <<"k">>, TRUE),
             OptionCall(<<"-", "-", "r">>, <<>>, TRUE),
             OptionCall(<<"-", "a">>, <<>>, FALSE),
             OptionCall(<<"-", "b">>, <<>>, FALSE) >>

\* C31: a failure returned by Arg or Args is returned by the entry point as
\* it is, with no positional list: it is the value the callback returned,
\* not wrapped in "option <name>: ..." nor in any other layer, so errors.Is
\* classifies it as ErrCmdline, and identifies it as a sentinel or as
\* strconv's error, exactly when it does so for the callback's own value
\* (ErrUnknown stays ErrUnknown; strconv's error stays outside ErrCmdline).
C31_PositionalFailureUnchanged ==
    (FailedIn("Arg") \/ FailedIn("Args")) =>
        /\ err = cb
        /\ ret = <<>>
        /\ err \in CallbackErrs
        /\ Head(err).fmt \notin { "option %s: %w", "unknown option %q" }
        /\ ErrIs(err, ErrCmdline) <=> Head(cb).tagged
        /\ \A e \in Sentinels \cup { ErrNum, ErrSyntax } : ErrIs(err, e) <=> ErrIs(cb, e)
        /\ cb = ErrNum => ~ErrIs(err, ErrCmdline)
        /\ cb = ErrUnknown => err = ErrUnknown

\* ParseS(["k", "-a"]): Args returned strconv's error, and ParseS returned it.
C31_Witness ==
    /\ pc = "done"
    /\ entry = "ParseS"
    /\ input = << <<"k">>, <<"-", "a">> >>
    /\ calls = << ArgCall(0, <<"k">>, FALSE), ArgCall(1, <<"-", "a">>, FALSE),
                  ArgsCall(input, <<>>) >>
    /\ cb = ErrNum
    /\ err = ErrNum
    /\ ret = <<>>
    /\ ~ErrIs(err, ErrCmdline)

\* The error e as the first generation's package holds it: the same layers and
\* messages, none of them a cmdlineError.
Untagged(e) == [i \in 1..Len(e) |-> [e[i] EXCEPT !.tagged = FALSE]]

\* The plan the finished call has followed: the run stops at the first failure
\* of a callback, so the callback that failed, if any, is the last one called.
PlanTaken == IF cb = Nil THEN NoFail ELSE [at |-> Made(S), err |-> cb]

\* The first generation's parse on the same tokens, entry point and schema,
\* each callback returning what it returned to the second generation.
OldOutcome ==
    OldRun(Start(input, entry, caps), [at |-> PlanTaken.at, err |-> Untagged(PlanTaken.err)])

\* Kind has not returned TakeTwoArgs for any name it was asked about.
NoTwoValueOption ==
    \A i \in 1..Len(calls) : calls[i].op = "Kind" => Kind(calls[i].name) # TakeTwoArgs

\* C32: on a schema whose Kind does not return TakeTwoArgs the two
\* generations of the engine agree, whatever the entry point and the tokens:
\* when the second generation's call has finished, the first generation's
\* call on the same input has made the same Kind, Option, Arg and Args calls
\* with the same arguments, has ended in the same case of the loop at the
\* same token, and has returned the same positional list, or the same failure
\* up to the cmdlineError tag: the same chain of messages and names.
C32_GenerationsAgree ==
    (pc = "done" /\ NoTwoValueOption) =>
        LET old == OldOutcome
        IN  /\ old.pc = "done"
            /\ old.calls = calls
            /\ old.branch = branch
            /\ old.cur = cur
            /\ old.mem = mem
            /\ old.ret = ret
            /\ old.err = Untagged(err)
            /\ err = Nil <=> old.err = Nil

\* ParsePOSIX(["-ab", "--r"]): both generations dispatch -a and -b and fail on
\* --r with "option --r requires an argument"; only the second generation's
\* failure is an ErrCmdline.
C32_Witness ==
    /\ pc = "done"
    /\ entry = "ParsePOSIX"
    /\ input = << <<"-", "a", "b">>, <<"-", "-", "r">> >>
    /\ NoTwoValueOption
    /\ Len(calls) = 5
    /\ OldOutcome.calls = calls
    /\ err = Errorf("option %s requires an argument", <<"-", "-", "r">>, Nil)
    /\ OldOutcome.err = FmtErrorf("option %s requires an argument", <<"-", "-", "r">>, Nil)
    /\ ErrIs(err, ErrCmdline)
    /\ ~ErrIs(OldOutcome.err, ErrCmdline)

=============================================================================
